---------------------------- MODULE Spec2Model ----------------------------
(***************************************************************************)
(* Model of the document segmentation and multi-chunk synthesis pipeline   *)
(* of law-school-study-buddy: src/lib/pdfChunker.ts and the quiz handler   *)
(* src/app/api/process-pdf/route.ts.                                       *)
(*                                                                         *)
(* A text is a sequence of one-character strings.  Each pure function of   *)
(* pdfChunker.ts is an operator computed the way the code computes it and  *)
(* is exercised by a specification of its own, whose Init draws the inputs *)
(* from bounded sets; the variables of the other components stay idle.     *)
(***************************************************************************)
EXTENDS Integers, Sequences, FiniteSets, TLC

VARIABLES
    \* distributeQuestions(totalQuestions, chunkCount)
    totalQuestions, chunkCount, distribution, dqPc,
    \* selectRepresentativeChunks(chunks, maxChunks)
    selChunks, maxChunks, selected, selPc,
    \* deduplicateQuestions(questions, similarityThreshold)
    \* (firstPass keeps the result of the first call when the result is
    \* deduplicated again)
    questions, similarityThreshold, unique, firstPass, ddPasses,
    \* chunkText(text, opts): cleanedText, position and chunks are its locals;
    \* spans[k] = <<from, to>> is the slice [from, to) of cleanedText that
    \* chunks[k] was cut from (history, not program state)
    text, opts, cleanedText, position, chunks, spans, ckPc,
    \* POST of process-pdf/route.ts: request is the input; hPc the position of
    \* the handler; questionCount, chunkResult, selectedChunks,
    \* questionsPerChunk, chunkPromises, allQuestions its locals; response
    \* what it returns.  chunkValues[i] is the value chunkPromises[i] is
    \* fulfilled with.  History: errorLog (the chunk indexes of the
    \* console.error calls of line 196), settleOrder (the order in which the
    \* calls completed), merged (allQuestions at line 202), chunkCalls
    \* (chunkCalls[i] lists, in order, what each call of
    \* generateQuestionsForChunk made for unit i, the one unit of the single
    \* path included, ended with: "" for a list of questions, else the
    \* message of the error thrown).
    request, hPc, questionCount, chunkResult, selectedChunks, questionsPerChunk,
    chunkPromises, chunkValues, errorLog, settleOrder, merged, allQuestions, response,
    chunkCalls,
    \* withRetry(fn, options): maxRetries, initialDelayMs, maxDelayMs and
    \* retryPolicy (which shouldRetry is in force) are the options; attempt,
    \* delay and lastError its locals; rtPc its position; rtResult what it
    \* returns or throws.  History: fnLog (what each invocation of fn came
    \* back with, in order), inFlight (invocations of fn started and not yet
    \* settled), delays (the delay of each setTimeout, in order).
    maxRetries, initialDelayMs, maxDelayMs, retryPolicy, attempt, delay, lastError,
    rtPc, rtResult, fnLog, inFlight, delays,
    \* The generation handlers (POST of generate-podcast/route.ts and the
    \* flashcards and slides handlers of like build, and POST of
    \* process-pdf/route.ts for quiz questions) serving the requests r of
    \* Requests against the table generated_content: store is the table, in
    \* insertion order; now the clock, in ticks.  Of request r: cRequest[r] is
    \* the input and cPc[r] the position of its handler; rateQuery[r] is the
    \* { count, error } of the count query, rateLimitResult[r] what
    \* checkRateLimit returned, cacheQuery[r] the { data, error } of the entry
    \* query, cached[r] what checkCachedContent returned, audioUrl[r] whether
    \* the upload gave a URL, cResponse[r] the response.  History: calls[r]
    \* (the collaborators called so far), saved[r] (how the insert went).
    store, now, cRequest, cPc, rateQuery, rateLimitResult, cacheQuery, cached, calls,
    audioUrl, saved, cResponse,
    \* The speech stage of POST of generate-podcast/route.ts:
    \* splitTextIntoChunks(script, maxLength) with its local remainingText
    \* (`remaining` in the source) and its result scriptChunks, then the
    \* loop over scriptChunks with audioBuffers
    \* and the concatenated audioBuffer; spPc is the position.  History: cuts
    \* (cuts[k] is the text dropped between scriptChunks[k] and what follows
    \* it), speechCalls (the input of each call of the speech collaborator,
    \* in order).
    script, maxLength, remainingText, scriptChunks, cuts, audioBuffers, speechCalls,
    audioBuffer, spPc,
    \* findBestSplitPoint(fbText, fbTarget, fbRange) called on its own:
    \* fbResult is what it returns, fbPc the position.
    fbText, fbTarget, fbRange, fbResult, fbPc

dqVars  == <<totalQuestions, chunkCount, distribution, dqPc>>
selVars == <<selChunks, maxChunks, selected, selPc>>
ddVars  == <<questions, similarityThreshold, unique, firstPass, ddPasses>>
ckVars  == <<text, opts, cleanedText, position, chunks, spans, ckPc>>
hVars   == <<request, hPc, questionCount, chunkResult, selectedChunks, questionsPerChunk,
             chunkPromises, chunkValues, errorLog, settleOrder, merged, allQuestions,
             response, chunkCalls>>
rtVars  == <<maxRetries, initialDelayMs, maxDelayMs, retryPolicy, attempt, delay, lastError,
             rtPc, rtResult, fnLog, inFlight, delays>>
cVars   == <<store, now, cRequest, cPc, rateQuery, rateLimitResult, cacheQuery, cached, calls,
             audioUrl, saved, cResponse>>
spVars  == <<script, maxLength, remainingText, scriptChunks, cuts, audioBuffers, speechCalls,
             audioBuffer, spPc>>
fbVars  == <<fbText, fbTarget, fbRange, fbResult, fbPc>>
vars    == <<dqVars, selVars, ddVars, ckVars, hVars, rtVars, cVars, spVars, fbVars>>

-----------------------------------------------------------------------------
(* Helpers *)

Min(a, b) == IF a < b THEN a ELSE b
Max(a, b) == IF a > b THEN a ELSE b

RECURSIVE SumSeq(_)
SumSeq(s) == IF s = <<>> THEN 0 ELSE Head(s) + SumSeq(Tail(s))

\* Array.prototype.splice(at, 0, x): insert x before 0-based index `at`.
SpliceInsert(s, at, x) == SubSeq(s, 1, at) \o <<x>> \o SubSeq(s, at + 1, Len(s))

-----------------------------------------------------------------------------
(* Budget Distributor: pdfChunker.ts distributeQuestions *)

MaxTotalQuestions == 13
MaxChunkCount     == 5

\* Faulty variant: the extra question goes to the entries up to and including index
\* `remainder` (i <= remainder instead of i < remainder).
distributeQuestionsOffByOne(total, count) ==
    IF count = 1
    THEN <<total>>
    ELSE LET basePerChunk == total \div count
             remainder    == total % count
         IN  [k \in 1..count |-> basePerChunk + (IF (k - 1) <= remainder THEN 1 ELSE 0)]

\* Faulty variant: the whole remainder goes to the first chunk.
distributeQuestionsRemainderFirst(total, count) ==
    IF count = 1
    THEN <<total>>
    ELSE LET basePerChunk == total \div count
             remainder    == total % count
         IN  [k \in 1..count |-> basePerChunk + (IF k = 1 THEN remainder ELSE 0)]

distributeQuestions(total, count) ==
    IF count = 1
    THEN <<total>>
    ELSE LET basePerChunk == total \div count
             remainder    == total % count
         IN  [k \in 1..count |-> basePerChunk + (IF (k - 1) < remainder THEN 1 ELSE 0)]

IdleDistribute ==
    /\ totalQuestions = 0
    /\ chunkCount = 1
    /\ distribution = <<>>
    /\ dqPc = "idle"

InitDistribute ==
    /\ totalQuestions \in 0..MaxTotalQuestions
    /\ chunkCount \in 1..MaxChunkCount
    /\ distribution = <<>>
    /\ dqPc = "call"

Distribute ==
    /\ dqPc = "call"
    /\ distribution' = distributeQuestions(totalQuestions, chunkCount)
    /\ dqPc' = "done"
    /\ UNCHANGED <<totalQuestions, chunkCount>>

-----------------------------------------------------------------------------
(* Chunk Selector: pdfChunker.ts selectRepresentativeChunks *)

MaxInputChunks == 10
MaxMaxChunks   == 6

\* Faulty variant: the middle chunks are appended (push) instead of spliced in
\* before the last chunk.
RECURSIVE FillMiddlePush(_, _, _, _, _)
FillMiddlePush(sel, middleChunks, step, remainingSlots, i) ==
    IF i >= remainingSlots
    THEN sel
    ELSE LET index == Min((i + 1) * step, Len(middleChunks) - 1)
         IN  FillMiddlePush(Append(sel, middleChunks[index + 1]),
                            middleChunks, step, remainingSlots, i + 1)

\* The for loop of lines 160-163, from iteration i on.
RECURSIVE FillMiddle(_, _, _, _, _)
FillMiddle(sel, middleChunks, step, remainingSlots, i) ==
    IF i >= remainingSlots
    THEN sel
    ELSE LET index == Min((i + 1) * step, Len(middleChunks) - 1)
         IN  FillMiddle(SpliceInsert(sel, Len(sel) - 1, middleChunks[index + 1]),
                        middleChunks, step, remainingSlots, i + 1)

selectRepresentativeChunks(chunkList, maxC) ==
    IF Len(chunkList) <= maxC
    THEN chunkList
    ELSE LET n    == Len(chunkList)
             sel0 == IF maxC > 1 THEN <<chunkList[1], chunkList[n]>>
                                 ELSE <<chunkList[1]>>
             remainingSlots == maxC - Len(sel0)
         IN  IF remainingSlots > 0 /\ n > 2
             THEN LET middleChunks == SubSeq(chunkList, 2, n - 1)
                      step == Len(middleChunks) \div (remainingSlots + 1)
                  IN  FillMiddle(sel0, middleChunks, step, remainingSlots, 0)
             ELSE sel0

IdleSelect ==
    /\ selChunks = <<>>
    /\ maxChunks = 1
    /\ selected = <<>>
    /\ selPc = "idle"

\* A chunk is named by its position in the document, so that a selected
\* chunk tells which input position it was taken from.
InitSelect ==
    /\ \E n \in 0..MaxInputChunks : selChunks = [k \in 1..n |-> k]
    /\ maxChunks \in 1..MaxMaxChunks
    /\ selected = <<>>
    /\ selPc = "call"

Select ==
    /\ selPc = "call"
    /\ selected' = selectRepresentativeChunks(selChunks, maxChunks)
    /\ selPc' = "done"
    /\ UNCHANGED <<selChunks, maxChunks>>


-----------------------------------------------------------------------------
(* Similarity Deduplicator: pdfChunker.ts deduplicateQuestions *)

MaxQuestions == 3

QuestionChars == {"a", "A", " "}

\* A threshold n/d is the pair <<n, d>>: the default 0.7, the quiz
\* handler's 0.6, and 0.5.
Thresholds == {<<7, 10>>, <<3, 5>>, <<1, 2>>}

\* \s
Whitespace == {" ", "\n", "\t", "\r"}

IsWhitespace(c) == c \in Whitespace

ToLowerChar(c) == CASE c = "A" -> "a"
                    [] c = "P" -> "p"
                    [] c = "G" -> "g"
                    [] c = "E" -> "e"
                    [] OTHER   -> c

\* String.prototype.toLowerCase
ToLowerCase(str) == [k \in 1..Len(str) |-> ToLowerChar(str[k])]

\* String.prototype.split(/\s+/), from character k on: `done` are the
\* tokens closed so far, `cur` the token being read.  A run of whitespace
\* closes the current token once; the last token is closed at the end, so
\* leading or trailing whitespace yields an empty token.
RECURSIVE SplitFrom(_, _, _, _)
SplitFrom(str, k, done, cur) ==
    IF k > Len(str)
    THEN Append(done, cur)
    ELSE IF IsWhitespace(str[k])
         THEN IF k > 1 /\ IsWhitespace(str[k - 1])
              THEN SplitFrom(str, k + 1, done, cur)
              ELSE SplitFrom(str, k + 1, Append(done, cur), <<>>)
         ELSE SplitFrom(str, k + 1, done, Append(cur, str[k]))

SplitWhitespace(str) == SplitFrom(str, 1, <<>>, <<>>)

SeqToSet(s) == {s[k] : k \in 1..Len(s)}

\* new Set(str.toLowerCase().split(/\s+/))
WordSet(str) == SeqToSet(SplitWhitespace(ToLowerCase(str)))

\* calculateSimilarity(text1, text2) = |intersection| / |union|, as the
\* pair <<numerator, denominator>>; the union is never empty.
calculateSimilarity(text1, text2) ==
    LET words1 == WordSet(text1)
        words2 == WordSet(text2)
    IN  <<Cardinality(words1 \cap words2), Cardinality(words1 \cup words2)>>

\* a/b > c/d for positive denominators.
RatioGreater(r, t) == r[1] * t[2] > t[1] * r[2]
RatioGreaterEq(r, t) == r[1] * t[2] >= t[1] * r[2]

\* Faulty variant: a candidate is compared with the last accepted item only.
RECURSIVE DedupeLastOnly(_, _, _, _)
DedupeLastOnly(qs, threshold, k, acc) ==
    IF k > Len(qs)
    THEN acc
    ELSE LET q == qs[k]
             isDuplicate ==
                 /\ acc # <<>>
                 /\ RatioGreater(calculateSimilarity(acc[Len(acc)].question, q.question),
                                 threshold)
         IN  DedupeLastOnly(qs, threshold, k + 1, IF isDuplicate THEN acc ELSE Append(acc, q))

\* Faulty variant: an accepted candidate is put in front of the list (unshift).
RECURSIVE DedupeUnshift(_, _, _, _)
DedupeUnshift(qs, threshold, k, acc) ==
    IF k > Len(qs)
    THEN acc
    ELSE LET q == qs[k]
             isDuplicate == \E e \in 1..Len(acc) :
                 RatioGreater(calculateSimilarity(acc[e].question, q.question), threshold)
         IN  DedupeUnshift(qs, threshold, k + 1, IF isDuplicate THEN acc ELSE <<q>> \o acc)

\* The for loop of lines 203-211 over questions[k..], `acc` being `unique`.
RECURSIVE DedupeFrom(_, _, _, _)
DedupeFrom(qs, threshold, k, acc) ==
    IF k > Len(qs)
    THEN acc
    ELSE LET q == qs[k]
             isDuplicate == \E e \in 1..Len(acc) :
                 RatioGreater(calculateSimilarity(acc[e].question, q.question), threshold)
         IN  DedupeFrom(qs, threshold, k + 1, IF isDuplicate THEN acc ELSE Append(acc, q))

deduplicateQuestions(qs, threshold) == DedupeFrom(qs, threshold, 1, <<>>)

\* The question texts: every string of one or two characters, among them
\* "a", "A", "a " and " a", whose word sets are {a}, {a}, {a, ""}, {"", a}.
QuestionTexts == [{1} -> QuestionChars] \cup [{1, 2} -> QuestionChars]

QuestionItems == [question : QuestionTexts]

IdleDedupe ==
    /\ questions = <<>>
    /\ similarityThreshold = <<7, 10>>
    /\ unique = <<>>
    /\ firstPass = <<>>
    /\ ddPasses = 0

InitDedupe ==
    /\ \E n \in 0..MaxQuestions : questions \in [1..n -> QuestionItems]
    /\ similarityThreshold \in Thresholds
    /\ unique = <<>>
    /\ firstPass = <<>>
    /\ ddPasses = 0

\* unique = deduplicateQuestions(questions, similarityThreshold)
Dedupe ==
    /\ ddPasses = 0
    /\ unique' = deduplicateQuestions(questions, similarityThreshold)
    /\ ddPasses' = 1
    /\ UNCHANGED <<questions, similarityThreshold, firstPass>>

\* The result is deduplicated once more: dedupe(dedupe(x)).
DedupeAgain ==
    /\ ddPasses = 1
    /\ firstPass' = unique
    /\ unique' = deduplicateQuestions(unique, similarityThreshold)
    /\ ddPasses' = 2
    /\ UNCHANGED <<questions, similarityThreshold>>

-----------------------------------------------------------------------------
(* Text Normalizer: pdfChunker.ts cleanPdfText *)

Digits    == {"0", "1", "2"}
\* \w of the characters the model uses: letters, digits, underscore.
WordChars == {"a", "A", "P", "p", "g", "G", "e", "E", "o", "f", "_"} \cup Digits

IsWordChar(c) == c \in WordChars

\* String.prototype.slice(from, to) for 0 <= from; the end is clamped.
Slice(str, from, to) == SubSeq(str, from + 1, Min(to, Len(str)))

\* Number of leading characters of str[k..] (1-based k) that are in class.
RECURSIVE RunLength(_, _, _)
RunLength(str, k, class) ==
    IF k <= Len(str) /\ str[k] \in class THEN 1 + RunLength(str, k + 1, class) ELSE 0

\* String.prototype.trim
Trim(str) ==
    LET lead == RunLength(str, 1, Whitespace)
    IN  IF lead = Len(str)
        THEN <<>>
        ELSE LET last == CHOOSE k \in 1..Len(str) :
                             /\ ~IsWhitespace(str[k])
                             /\ \A j \in (k + 1)..Len(str) : IsWhitespace(str[j])
             IN SubSeq(str, lead + 1, last)

\* replace(/\s+/g, ' '): every run of whitespace becomes one space.
RECURSIVE CollapseWhitespaceFrom(_, _)
CollapseWhitespaceFrom(str, k) ==
    IF k > Len(str) THEN <<>>
    ELSE IF IsWhitespace(str[k])
         THEN <<" ">> \o CollapseWhitespaceFrom(str, k + RunLength(str, k, Whitespace))
         ELSE <<str[k]>> \o CollapseWhitespaceFrom(str, k + 1)

CollapseWhitespace(str) == CollapseWhitespaceFrom(str, 1)

\* \b between str[k - 1] and str[k] (1-based k in 1..Len + 1).
WordBoundaryAt(str, k) ==
    LET before == k > 1 /\ IsWordChar(str[k - 1])
        after  == k <= Len(str) /\ IsWordChar(str[k])
    IN  before # after

StartsWithAt(str, k, pat) ==
    /\ k + Len(pat) - 1 <= Len(str)
    /\ SubSeq(str, k, k + Len(pat) - 1) = pat

\* /\b(Page|page|PAGE)\s*\d+\s*(of\s*\d+)?\b/ tried at 1-based k: the
\* 1-based position just after the match, or 0 when there is none.  The
\* quantifiers are greedy, so the first \s* and the \d+ take their whole
\* runs (anything shorter is followed by a character the next item cannot
\* match); the second \s* takes its whole run when the "of N" group or a
\* word follows it, and otherwise gives the run back so that \b holds
\* right after the digits.
PageFurnitureEnd(str, k) ==
    IF ~(/\ WordBoundaryAt(str, k)
         /\ \/ StartsWithAt(str, k, <<"P", "a", "g", "e">>)
            \/ StartsWithAt(str, k, <<"p", "a", "g", "e">>)
            \/ StartsWithAt(str, k, <<"P", "A", "G", "E">>))
    THEN 0
    ELSE LET d1 == k + 4 + RunLength(str, k + 4, Whitespace)
             n1 == RunLength(str, d1, Digits)
             s2 == d1 + n1
             m  == RunLength(str, s2, Whitespace)
             g  == s2 + m
             d2 == g + 2 + RunLength(str, g + 2, Whitespace)
             n2 == RunLength(str, d2, Digits)
             withGroup == /\ StartsWithAt(str, g, <<"o", "f">>)
                          /\ n2 >= 1
                          /\ WordBoundaryAt(str, d2 + n2)
         IN  IF n1 = 0 THEN 0
             ELSE IF withGroup THEN d2 + n2
             ELSE IF WordBoundaryAt(str, g) THEN g
             ELSE IF WordBoundaryAt(str, s2) THEN s2
             ELSE 0

\* replace(/\b(Page|page|PAGE)\s*\d+\s*(of\s*\d+)?\b/g, '')
RECURSIVE RemovePageNumbersFrom(_, _)
RemovePageNumbersFrom(str, k) ==
    IF k > Len(str) THEN <<>>
    ELSE LET e == PageFurnitureEnd(str, k)
         IN  IF e # 0
             THEN RemovePageNumbersFrom(str, e)
             ELSE <<str[k]>> \o RemovePageNumbersFrom(str, k + 1)

RemovePageNumbers(str) == RemovePageNumbersFrom(str, 1)

IsLineStart(str, k) == k = 1 \/ str[k - 1] = "\n"
IsLineEnd(str, k)   == k = Len(str) + 1 \/ str[k] = "\n"

\* /^\d+\s*$/m tried at 1-based k: the position just after the match, or 0.
\* \s* is greedy and may run over newlines; it stops at the last position
\* of its run that is a line end.
NumberLineEnd(str, k) ==
    IF ~IsLineStart(str, k) THEN 0
    ELSE LET n == RunLength(str, k, Digits)
             s == k + n
             m == RunLength(str, s, Whitespace)
             ends == {e \in s..(s + m) : IsLineEnd(str, e)}
         IN  IF n = 0 \/ ends = {} THEN 0
             ELSE CHOOSE e \in ends : \A o \in ends : o <= e

\* replace(/^\d+\s*$/gm, '')
RECURSIVE RemoveNumberLinesFrom(_, _)
RemoveNumberLinesFrom(str, k) ==
    IF k > Len(str) THEN <<>>
    ELSE LET e == NumberLineEnd(str, k)
         IN  IF e # 0
             THEN RemoveNumberLinesFrom(str, e)
             ELSE <<str[k]>> \o RemoveNumberLinesFrom(str, k + 1)

RemoveNumberLines(str) == RemoveNumberLinesFrom(str, 1)

\* replace(/\n{3,}/g, '\n\n')
RECURSIVE CollapseNewlinesFrom(_, _)
CollapseNewlinesFrom(str, k) ==
    IF k > Len(str) THEN <<>>
    ELSE LET n == RunLength(str, k, {"\n"})
         IN  IF n >= 3
             THEN <<"\n", "\n">> \o CollapseNewlinesFrom(str, k + n)
             ELSE <<str[k]>> \o CollapseNewlinesFrom(str, k + 1)

CollapseNewlines(str) == CollapseNewlinesFrom(str, 1)

cleanPdfText(str) ==
    Trim(CollapseNewlines(RemoveNumberLines(RemovePageNumbers(CollapseWhitespace(str)))))

-----------------------------------------------------------------------------
(* Segmenter: pdfChunker.ts findBestSplitPoint, chunkText *)

MaxTextLen      == 5
MaxMaxChunkSize == 3

\* findBestSplitPoint's `range` parameter (default 200 in the source, never
\* passed by chunkText), scaled to the text lengths the model explores.
SearchRange == 2

TextChars == {"a", " ", ".", "\n"}

\* String.prototype.lastIndexOf(pat): 0-based index of the last occurrence
\* of pat in area, or -1.
LastIndexOf(area, pat) ==
    LET hits == {k \in 0..(Len(area) - Len(pat)) : SubSeq(area, k + 1, k + Len(pat)) = pat}
    IN  IF hits = {} THEN -1 ELSE CHOOSE k \in hits : \A o \in hits : o <= k

sentenceBreaks ==
    << <<".", " ">>, <<"?", " ">>, <<"!", " ">>, <<".", "\n">>, <<"?", "\n">>, <<"!", "\n">> >>

\* The for loop of lines 63-68 from pattern p on: the split point of the
\* first pattern that occurs in searchArea, or -1 when none does.
RECURSIVE SentenceSplit(_, _, _)
SentenceSplit(searchArea, start, p) ==
    IF p > Len(sentenceBreaks)
    THEN -1
    ELSE LET breakPattern  == sentenceBreaks[p]
             sentenceBreak == LastIndexOf(searchArea, breakPattern)
         IN  IF sentenceBreak # -1
             THEN start + sentenceBreak + Len(breakPattern)
             ELSE SentenceSplit(searchArea, start, p + 1)

findBestSplitPoint(txt, targetPosition, range) ==
    LET start      == Max(0, targetPosition - range)
        end        == Min(Len(txt), targetPosition + range)
        searchArea == Slice(txt, start, end)
        paragraphBreak == LastIndexOf(searchArea, <<"\n", "\n">>)
        sentence   == SentenceSplit(searchArea, start, 1)
        wordBreak  == LastIndexOf(searchArea, <<" ">>)
    IN  IF paragraphBreak # -1 THEN start + paragraphBreak + 2
        ELSE IF sentence # -1 THEN sentence
        ELSE IF wordBreak # -1 THEN start + wordBreak + 1
        ELSE targetPosition

Texts == UNION {[1..n -> TextChars] : n \in 0..MaxTextLen}

\* The texts, candidate positions and ranges findBestSplitPoint is called
\* with on its own.
MaxSplitTextLen == 5

SplitChars == {"a", " ", ".", "?", "\n"}

SplitTexts == UNION {[1..n -> SplitChars] : n \in 0..MaxSplitTextLen}

SplitRanges == {SearchRange, 2 * SearchRange}

IdleSplit ==
    /\ fbText = <<>>
    /\ fbTarget = 0
    /\ fbRange = SearchRange
    /\ fbResult = -1
    /\ fbPc = "idle"

InitSplit ==
    /\ fbText \in SplitTexts
    /\ fbTarget \in 0..Len(fbText)
    /\ fbRange \in SplitRanges
    /\ fbResult = -1
    /\ fbPc = "call"

\* Lines 50-78: the call returns.
FindSplit ==
    /\ fbPc = "call"
    /\ fbResult' = findBestSplitPoint(fbText, fbTarget, fbRange)
    /\ fbPc' = "done"
    /\ UNCHANGED <<fbText, fbTarget, fbRange>>

\* SegmentationOptions with 0 <= overlapSize < maxChunkSize and
\* 0 <= minChunkSize <= maxChunkSize.
ChunkOptions ==
    {o \in [maxChunkSize : 1..MaxMaxChunkSize,
            overlapSize  : 0..(MaxMaxChunkSize - 1),
            minChunkSize : 0..MaxMaxChunkSize] :
        /\ o.overlapSize < o.maxChunkSize
        /\ o.minChunkSize <= o.maxChunkSize}

\* Options with an overlapSize that may reach or exceed maxChunkSize.
WideChunkOptions ==
    {o \in [maxChunkSize : 1..MaxMaxChunkSize,
            overlapSize  : 0..(MaxMaxChunkSize + 1),
            minChunkSize : 0..MaxMaxChunkSize] :
        o.minChunkSize \in {0, o.maxChunkSize}}

IdleChunk ==
    /\ text = <<>>
    /\ opts = [maxChunkSize |-> 1, overlapSize |-> 0, minChunkSize |-> 0]
    /\ cleanedText = <<>>
    /\ position = 0
    /\ chunks = <<>>
    /\ spans = <<>>
    /\ ckPc = "idle"

InitChunk ==
    /\ text \in Texts
    /\ opts \in ChunkOptions
    /\ cleanedText = <<>>
    /\ position = 0
    /\ chunks = <<>>
    /\ spans = <<>>
    /\ ckPc = "call"

InitChunkWide ==
    /\ text \in Texts
    /\ opts \in WideChunkOptions
    /\ cleanedText = <<>>
    /\ position = 0
    /\ chunks = <<>>
    /\ spans = <<>>
    /\ ckPc = "call"

\* Lines 85-98: normalize; a text that fits is returned as a single chunk.
ChunkTextStart ==
    /\ ckPc = "call"
    /\ LET cleaned == cleanPdfText(text)
       IN  /\ cleanedText' = cleaned
           /\ IF Len(cleaned) <= opts.maxChunkSize
              THEN /\ chunks' = <<cleaned>>
                   /\ spans' = << <<0, Len(cleaned)>> >>
                   /\ ckPc' = "done"
              ELSE /\ chunks' = <<>>
                   /\ spans' = <<>>
                   /\ ckPc' = "loop"
    /\ position' = 0
    /\ UNCHANGED <<text, opts>>

\* Lines 100-108 and 125: the loop ends, either because the candidate end
\* reaches the end of the text, the rest being the last chunk (break), or
\* because the loop condition position < cleanedText.length fails.
ChunkTextTail ==
    /\ ckPc = "loop"
    /\ IF position < Len(cleanedText)
       THEN /\ position + opts.maxChunkSize >= Len(cleanedText)
            /\ chunks' = Append(chunks, Trim(Slice(cleanedText, position, Len(cleanedText))))
            /\ spans' = Append(spans, <<position, Len(cleanedText)>>)
       ELSE UNCHANGED <<chunks, spans>>
    /\ ckPc' = "done"
    /\ UNCHANGED <<text, opts, cleanedText, position>>

\* Faulty variant: the chunk is emitted without the minimum-size test.
ChunkTextStepNoMinCheck ==
    /\ ckPc = "loop"
    /\ position < Len(cleanedText)
    /\ position + opts.maxChunkSize < Len(cleanedText)
    /\ LET endPosition == findBestSplitPoint(cleanedText, position + opts.maxChunkSize,
                                             SearchRange)
           chunk == Trim(Slice(cleanedText, position, endPosition))
       IN  /\ chunks' = Append(chunks, chunk)
           /\ spans' = Append(spans, <<position, endPosition>>)
           /\ position' = Max(position + 1, endPosition - opts.overlapSize)
    /\ UNCHANGED <<text, opts, cleanedText, ckPc>>

\* Faulty variant: the cursor moves to the split point less the overlap,
\* without the position + 1 guard.
ChunkTextStepNoGuard ==
    /\ ckPc = "loop"
    /\ position < Len(cleanedText)
    /\ position + opts.maxChunkSize < Len(cleanedText)
    /\ LET endPosition == findBestSplitPoint(cleanedText, position + opts.maxChunkSize,
                                             SearchRange)
           chunk == Trim(Slice(cleanedText, position, endPosition))
       IN  /\ IF Len(chunk) >= opts.minChunkSize
              THEN /\ chunks' = Append(chunks, chunk)
                   /\ spans' = Append(spans, <<position, endPosition>>)
              ELSE UNCHANGED <<chunks, spans>>
           /\ position' = Max(0, endPosition - opts.overlapSize)
    /\ UNCHANGED <<text, opts, cleanedText, ckPc>>

\* Lines 100-122: one iteration that cuts a chunk at the best split point
\* and moves the cursor.
ChunkTextStep ==
    /\ ckPc = "loop"
    /\ position < Len(cleanedText)
    /\ position + opts.maxChunkSize < Len(cleanedText)
    /\ LET endPosition == findBestSplitPoint(cleanedText, position + opts.maxChunkSize,
                                             SearchRange)
           chunk == Trim(Slice(cleanedText, position, endPosition))
       IN  /\ IF Len(chunk) >= opts.minChunkSize
              THEN /\ chunks' = Append(chunks, chunk)
                   /\ spans' = Append(spans, <<position, endPosition>>)
              ELSE UNCHANGED <<chunks, spans>>
           /\ position' = Max(position + 1, endPosition - opts.overlapSize)
    /\ UNCHANGED <<text, opts, cleanedText, ckPc>>

-----------------------------------------------------------------------------
(* Generation Orchestrator: process-pdf/route.ts POST *)

MaxDocChunks        == 4
MaxItemsPerResponse == 2

\* config.questionCount: 0 stands for an absent (or zero) value, which
\* line 151 replaces by 10.
QuestionCountInputs == {0, 1, 5}

\* How a call of openai.chat.completions.create fails.
ApiErrors == {"API key", "rate limit", "server"}

HandlerTexts == {<<"a">>, <<"b">>}

\* An item of the JSON array the collaborator answers with: wellFormed says
\* whether it passes the test of lines 110-117; src = <<call, k>> records
\* that it is the k-th item of the answer to the call for chunk index `call`
\* (0 for the single call).
RawItems(call) ==
    [question : HandlerTexts, wellFormed : BOOLEAN, src : {call} \X (1..MaxItemsPerResponse)]

RawItemLists(call) ==
    UNION {{l \in [1..n -> RawItems(call)] : \A k \in 1..n : l[k].src[2] = k} :
               n \in 0..MaxItemsPerResponse}

\* What one collaborator call comes back with: an API error, a text without
\* a JSON array, or a JSON array of items.
CallOutcomes(call) ==
    {[kind |-> "throws", error |-> e] : e \in ApiErrors}
        \cup {[kind |-> "noJson"]}
        \cup {[kind |-> "json", json |-> l] : l \in RawItemLists(call)}

\* Lines 108-126 from item k on: an ill-formed item throws, the others are
\* collected (with the difficulty overwritten).
RECURSIVE NormalizeFrom(_, _, _)
NormalizeFrom(items, k, acc) ==
    IF k > Len(items)
    THEN [ok |-> TRUE, value |-> acc]
    ELSE IF ~items[k].wellFormed
         THEN [ok |-> FALSE, message |-> "Invalid question structure"]
         ELSE NormalizeFrom(items, k + 1,
                            Append(acc, [question |-> items[k].question, src |-> items[k].src]))

\* generateQuestionsForChunk, given what the collaborator call comes back
\* with: the questions it returns, or the message of the error it throws.
generateQuestionsForChunk(outcome) ==
    IF outcome.kind = "throws"
    THEN [ok |-> FALSE, message |-> outcome.error]
    ELSE IF outcome.kind = "noJson"
         THEN [ok |-> FALSE, message |-> "No valid JSON array in response"]
         ELSE NormalizeFrom(outcome.json, 1, <<>>)

\* The catch block of lines 234-256.
ErrorResponse(message) ==
    IF message = "API key"
    THEN [status |-> 500, error |-> "API configuration error. Please contact support."]
    ELSE IF message = "rate limit"
         THEN [status |-> 429, error |-> "Service is busy. Please try again in a few moments."]
         ELSE [status |-> 500, error |-> message]

\* Array.prototype.flat over the per-chunk results in the order given.
RECURSIVE FlatInOrder(_, _)
FlatInOrder(values, order) ==
    IF order = <<>> THEN <<>>
    ELSE values[Head(order)] \o FlatInOrder(values, Tail(order))

\* Faulty variant: the results are concatenated in the order the calls completed.
FlatByArrival(values, order) == FlatInOrder(values, order)

\* Lines 201-202: Promise.all yields the values by index of the promise,
\* whatever order they settled in; flat concatenates them.
Flat(values, order) == FlatInOrder(values, [k \in 1..Len(values) |-> k])

\* Faulty variant: an empty list is returned as a success.
FinishAllowEmpty(qs, count) ==
    LET trimmed == IF Len(qs) > count THEN SubSeq(qs, 1, count) ELSE qs
    IN  [status |-> 200, questions |-> trimmed]

\* Faulty variant: a list that is too long keeps its last count items.
FinishKeepLast(qs, count) ==
    LET trimmed == IF Len(qs) > count THEN SubSeq(qs, Len(qs) - count + 1, Len(qs)) ELSE qs
    IN  IF Len(trimmed) = 0
        THEN [status |-> 500,
              error |-> "Failed to generate questions. Please try again with different content."]
        ELSE [status |-> 200, questions |-> trimmed]

\* Lines 208-233: trim to questionCount, fail when nothing is left.
Finish(qs, count) ==
    LET trimmed == IF Len(qs) > count THEN SubSeq(qs, 1, count) ELSE qs
    IN  IF Len(trimmed) = 0
        THEN [status |-> 500,
              error |-> "Failed to generate questions. Please try again with different content."]
        ELSE [status |-> 200, questions |-> trimmed]

NoChunkResult == [chunks |-> <<>>, chunkCount |-> 0]

\* Line 164 (shortened).
NoTextMessage == "No text could be extracted from the PDF."

IdleHandler ==
    /\ request = [hasFile |-> FALSE, pdf |-> "throws", docChunks |-> 1, questionCount |-> 0]
    /\ hPc = "idle"
    /\ questionCount = 0
    /\ chunkResult = NoChunkResult
    /\ selectedChunks = <<>>
    /\ questionsPerChunk = <<>>
    /\ chunkPromises = <<>>
    /\ chunkValues = <<>>
    /\ errorLog = {}
    /\ settleOrder = <<>>
    /\ merged = <<>>
    /\ allQuestions = <<>>
    /\ response = [status |-> 0]
    /\ chunkCalls = <<>>

\* A request: whether the form holds a file, what pdfParse does with it
\* (throws, yields no text, yields a text), how many chunks chunkText cuts
\* that text into (at least one), and config.questionCount.
InitHandler ==
    /\ request \in [hasFile : BOOLEAN, pdf : {"throws", "empty", "text"},
                    docChunks : 1..MaxDocChunks, questionCount : QuestionCountInputs]
    /\ hPc = "start"
    /\ questionCount = 0
    /\ chunkResult = NoChunkResult
    /\ selectedChunks = <<>>
    /\ questionsPerChunk = <<>>
    /\ chunkPromises = <<>>
    /\ chunkValues = <<>>
    /\ errorLog = {}
    /\ settleOrder = <<>>
    /\ merged = <<>>
    /\ allQuestions = <<>>
    /\ response = [status |-> 0]
    /\ chunkCalls = <<>>

\* Lines 132-174: read the form, extract the text, chunk it.
ReceiveRequest ==
    /\ hPc = "start"
    /\ IF ~request.hasFile
       THEN /\ response' = [status |-> 400, error |-> "No PDF file provided"]
            /\ hPc' = "responded"
            /\ UNCHANGED <<questionCount, chunkResult>>
       ELSE /\ questionCount' = IF request.questionCount = 0 THEN 10
                                ELSE request.questionCount
            /\ IF request.pdf = "throws"
               THEN /\ response' = ErrorResponse("pdf")
                    /\ hPc' = "responded"
                    /\ UNCHANGED chunkResult
               ELSE IF request.pdf = "empty"
               THEN /\ response' = [status |-> 400,
                                    error |-> "No text could be extracted from the PDF. Please ensure the PDF contains selectable text."]
                    /\ hPc' = "responded"
                    /\ UNCHANGED chunkResult
               ELSE /\ chunkResult' = [chunks |-> [k \in 1..request.docChunks |-> k],
                                       chunkCount |-> request.docChunks]
                    /\ hPc' = "chunked"
                    /\ UNCHANGED response
    /\ UNCHANGED <<request, selectedChunks, questionsPerChunk, chunkPromises, chunkValues,
                   errorLog, settleOrder, merged, allQuestions, chunkCalls>>

\* Lines 179-185: a small document or few questions, one call for the
\* whole budget is started and awaited.
StartSingleCall ==
    /\ hPc = "chunked"
    /\ chunkResult.chunkCount = 1 \/ questionCount <= 5
    /\ hPc' = "awaitSingle"
    /\ UNCHANGED <<request, questionCount, chunkResult, selectedChunks, questionsPerChunk,
                   chunkPromises, chunkValues, errorLog, settleOrder, merged, allQuestions,
                   response, chunkCalls>>

\* Lines 181-185 and 208-256: the single call comes back; its questions are
\* trimmed and returned, its error goes to the catch block.
SingleCallSettles ==
    /\ hPc = "awaitSingle"
    /\ \E outcome \in CallOutcomes(0) :
           LET result == generateQuestionsForChunk(outcome)
           IN  /\ chunkCalls' = << <<IF result.ok THEN "" ELSE result.message>> >>
               /\ IF result.ok
                  THEN /\ allQuestions' = result.value
                       /\ response' = Finish(result.value, questionCount)
                  ELSE /\ response' = ErrorResponse(result.message)
                       /\ UNCHANGED allQuestions
    /\ hPc' = "responded"
    /\ UNCHANGED <<request, questionCount, chunkResult, selectedChunks, questionsPerChunk,
                   chunkPromises, chunkValues, errorLog, settleOrder, merged>>

\* Lines 188-201: select up to 3 chunks, distribute the budget, start one
\* call per selected chunk (map runs to its end before anything settles),
\* then await Promise.all.
FanOut ==
    /\ hPc = "chunked"
    /\ ~(chunkResult.chunkCount = 1 \/ questionCount <= 5)
    /\ LET maxC == Min(3, chunkResult.chunkCount)
           sel  == selectRepresentativeChunks(chunkResult.chunks, maxC)
       IN  /\ selectedChunks' = sel
           /\ questionsPerChunk' = distributeQuestions(questionCount, Len(sel))
           /\ chunkPromises' = [k \in 1..Len(sel) |-> "pending"]
           /\ chunkValues' = [k \in 1..Len(sel) |-> <<>>]
           /\ chunkCalls' = [k \in 1..Len(sel) |-> <<>>]
    /\ hPc' = "awaitAll"
    /\ UNCHANGED <<request, questionCount, chunkResult, errorLog, settleOrder, merged,
                   allQuestions, response>>

\* Faulty variant: no per-chunk catch; the error of a failing call rejects
\* Promise.all and reaches the catch block of the handler.
ChunkCallSettlesUncaught(index) ==
    /\ hPc = "awaitAll"
    /\ chunkPromises[index] = "pending"
    /\ \E outcome \in CallOutcomes(index) :
           LET result == generateQuestionsForChunk(outcome)
           IN  /\ chunkCalls' = [chunkCalls EXCEPT
                                    ![index] = Append(@, IF result.ok THEN "" ELSE result.message)]
               /\ IF result.ok
                  THEN /\ chunkValues' = [chunkValues EXCEPT ![index] = result.value]
                       /\ chunkPromises' = [chunkPromises EXCEPT ![index] = "fulfilled"]
                       /\ UNCHANGED <<errorLog, response, hPc>>
                  ELSE /\ chunkPromises' = [chunkPromises EXCEPT ![index] = "rejected"]
                       /\ errorLog' = errorLog \cup {index}
                       /\ response' = ErrorResponse(result.message)
                       /\ hPc' = "responded"
                       /\ UNCHANGED chunkValues
    /\ settleOrder' = Append(settleOrder, index)
    /\ UNCHANGED <<request, questionCount, chunkResult, selectedChunks, questionsPerChunk,
                   merged, allQuestions>>

\* Lines 193-199: the call for one chunk comes back, in any order; its
\* promise is fulfilled with its questions or, through the catch of line
\* 195, with [] after the error is logged.
ChunkCallSettles(index) ==
    /\ hPc = "awaitAll"
    /\ chunkPromises[index] = "pending"
    /\ \E outcome \in CallOutcomes(index) :
           LET result == generateQuestionsForChunk(outcome)
           IN  /\ chunkCalls' = [chunkCalls EXCEPT
                                    ![index] = Append(@, IF result.ok THEN "" ELSE result.message)]
               /\ IF result.ok
                  THEN /\ chunkValues' = [chunkValues EXCEPT ![index] = result.value]
                       /\ UNCHANGED errorLog
                  ELSE /\ chunkValues' = [chunkValues EXCEPT ![index] = <<>>]
                       /\ errorLog' = errorLog \cup {index}
    /\ chunkPromises' = [chunkPromises EXCEPT ![index] = "fulfilled"]
    /\ settleOrder' = Append(settleOrder, index)
    /\ UNCHANGED <<request, hPc, questionCount, chunkResult, selectedChunks,
                   questionsPerChunk, merged, allQuestions, response>>

\* Faulty variant: the handler goes on as soon as one call has settled.
AwaitAllFirstSettled ==
    /\ hPc = "awaitAll"
    /\ \E k \in 1..Len(chunkPromises) : chunkPromises[k] = "fulfilled"
    /\ merged' = Flat(chunkValues, settleOrder)
    /\ allQuestions' = deduplicateQuestions(merged', <<3, 5>>)
    /\ response' = Finish(allQuestions', questionCount)
    /\ hPc' = "responded"
    /\ UNCHANGED <<request, questionCount, chunkResult, selectedChunks, questionsPerChunk,
                   chunkPromises, chunkValues, errorLog, settleOrder, chunkCalls>>

\* Lines 201-233: Promise.all resolves once every promise is fulfilled; the
\* results are merged, deduplicated at 0.6, trimmed and returned.
AwaitAll ==
    /\ hPc = "awaitAll"
    /\ \A k \in 1..Len(chunkPromises) : chunkPromises[k] = "fulfilled"
    /\ merged' = Flat(chunkValues, settleOrder)
    /\ allQuestions' = deduplicateQuestions(merged', <<3, 5>>)
    /\ response' = Finish(allQuestions', questionCount)
    /\ hPc' = "responded"
    /\ UNCHANGED <<request, questionCount, chunkResult, selectedChunks, questionsPerChunk,
                   chunkPromises, chunkValues, errorLog, settleOrder, chunkCalls>>

-----------------------------------------------------------------------------
(* Retry wrapper: api-helpers withRetry *)

MaxMaxRetries == 3
MaxDelayInput == 3

\* An error fn rejects with: status is error.status and responseStatus is
\* error.response.status, 0 standing for an absent one.
Errors ==
    {[status |-> 0,   responseStatus |-> 0],
     [status |-> 400, responseStatus |-> 0],
     [status |-> 429, responseStatus |-> 0],
     [status |-> 500, responseStatus |-> 0],
     [status |-> 600, responseStatus |-> 0],
     [status |-> 0,   responseStatus |-> 599]}

NoError == [status |-> 0, responseStatus |-> 0]

\* What one invocation of fn comes back with.
FnOutcomes == {[ok |-> TRUE]} \cup {[ok |-> FALSE, error |-> e] : e \in Errors}

\* Lines 131-135: the default shouldRetry, on rate limits (429) and server
\* errors (5xx).
DefaultShouldRetry(error) ==
    LET status == IF error.status # 0 THEN error.status ELSE error.responseStatus
    IN  status = 429 \/ (status >= 500 /\ status < 600)

\* The shouldRetry in force: the default or one the caller gave.
RetryPolicies == {"default", "never", "always"}

shouldRetry(policy, error) ==
    CASE policy = "default" -> DefaultShouldRetry(error)
      [] policy = "never"   -> FALSE
      [] policy = "always"  -> TRUE

NoResult == [kind |-> "none"]

IdleRetry ==
    /\ maxRetries = 0
    /\ initialDelayMs = 0
    /\ maxDelayMs = 0
    /\ retryPolicy = "default"
    /\ attempt = 0
    /\ delay = 0
    /\ lastError = NoError
    /\ rtPc = "idle"
    /\ rtResult = NoResult
    /\ fnLog = <<>>
    /\ inFlight = 0
    /\ delays = <<>>

\* Lines 127-141: the options are read, delay starts at initialDelayMs and
\* attempt at 0.
InitRetry ==
    /\ maxRetries \in 0..MaxMaxRetries
    /\ initialDelayMs \in 1..MaxDelayInput
    /\ maxDelayMs \in 1..MaxDelayInput
    /\ retryPolicy \in RetryPolicies
    /\ attempt = 0
    /\ delay = initialDelayMs
    /\ lastError = NoError
    /\ rtPc = "call"
    /\ rtResult = NoResult
    /\ fnLog = <<>>
    /\ inFlight = 0
    /\ delays = <<>>

\* Lines 141-143: the loop condition holds and fn is invoked.
InvokeFn ==
    /\ rtPc = "call"
    /\ attempt <= maxRetries
    /\ inFlight' = inFlight + 1
    /\ rtPc' = "await"
    /\ UNCHANGED <<maxRetries, initialDelayMs, maxDelayMs, retryPolicy, attempt, delay,
                   lastError, rtResult, fnLog, delays>>

\* Faulty variant: an error is retried whatever shouldRetry says of it.
FnSettlesRetryAll ==
    /\ rtPc = "await"
    /\ inFlight' = inFlight - 1
    /\ \E outcome \in FnOutcomes :
           /\ fnLog' = Append(fnLog, outcome)
           /\ IF outcome.ok
              THEN /\ rtResult' = [kind |-> "returned"]
                   /\ rtPc' = "done"
                   /\ UNCHANGED lastError
              ELSE /\ lastError' = outcome.error
                   /\ IF attempt = maxRetries
                      THEN /\ rtResult' = [kind |-> "thrown", error |-> outcome.error]
                           /\ rtPc' = "done"
                      ELSE /\ rtPc' = "sleep"
                           /\ UNCHANGED rtResult
    /\ UNCHANGED <<maxRetries, initialDelayMs, maxDelayMs, retryPolicy, attempt, delay, delays>>

\* Lines 143-152: the invocation settles; its value is returned, or its
\* error is thrown on when the retries are used up or shouldRetry rejects
\* it, and otherwise a timer is set.
FnSettles ==
    /\ rtPc = "await"
    /\ inFlight' = inFlight - 1
    /\ \E outcome \in FnOutcomes :
           /\ fnLog' = Append(fnLog, outcome)
           /\ IF outcome.ok
              THEN /\ rtResult' = [kind |-> "returned"]
                   /\ rtPc' = "done"
                   /\ UNCHANGED lastError
              ELSE /\ lastError' = outcome.error
                   /\ IF attempt = maxRetries \/ ~shouldRetry(retryPolicy, outcome.error)
                      THEN /\ rtResult' = [kind |-> "thrown", error |-> outcome.error]
                           /\ rtPc' = "done"
                      ELSE /\ rtPc' = "sleep"
                           /\ UNCHANGED rtResult
    /\ UNCHANGED <<maxRetries, initialDelayMs, maxDelayMs, retryPolicy, attempt, delay, delays>>

\* Lines 152-153 and 141: the timer fires after delay ms; delay is doubled
\* up to maxDelayMs and attempt goes up by one.
DelayElapses ==
    /\ rtPc = "sleep"
    /\ delays' = Append(delays, delay)
    /\ delay' = Min(delay * 2, maxDelayMs)
    /\ attempt' = attempt + 1
    /\ rtPc' = "call"
    /\ UNCHANGED <<maxRetries, initialDelayMs, maxDelayMs, retryPolicy, lastError, rtResult,
                   fnLog, inFlight>>

-----------------------------------------------------------------------------
(* Resilience layer and generation handlers: api-helpers checkRateLimit and *)
(* checkCachedContent, POST of generate-podcast/route.ts                    *)

\* Line 4 of api-helpers.
RATE_LIMIT_MAX == 10

\* Time is counted in ticks.  RATE_LIMIT_WINDOW_MS (one hour) and the 7 days
\* of checkCachedContent are scaled to RateWindow and CacheWindow ticks,
\* which keeps their order; the clock stops at MaxClock.
RateWindow  == 1
CacheWindow == 2
MaxClock    == 3

MaxRequests == 3

Requests == 1..MaxRequests

Users == {"u1", "u2"}

\* The content types with a cache and a rate limit; quiz questions come
\* from process-pdf/route.ts.
CachedKinds == {"flashcards", "podcast", "slides"}
Kinds       == CachedKinds \cup {"quiz"}

Difficulties == {"basic", "advanced"}

\* A row of generated_content; difficulty is content_data.difficulty and
\* complete says whether content_data holds what the hit condition of the
\* handler looks for (audioUrl for a podcast, slides for slides).
Row(userId, pdfFilename, contentType, difficulty, complete, createdAt) ==
    [user_id |-> userId, pdf_filename |-> pdfFilename, content_type |-> contentType,
     difficulty |-> difficulty, complete |-> complete, created_at |-> createdAt]

\* null in the place of a row.
NoRow == Row("none", "", "", "", FALSE, 0)

MaxOfSet(S) == CHOOSE x \in S : \A y \in S : y <= x

\* Lines 21-25 of api-helpers: the exact count of the rows of userId created
\* at or after `since`.
CountQuery(rows, userId, since) ==
    Cardinality({i \in DOMAIN rows : /\ rows[i].user_id = userId
                                     /\ rows[i].created_at >= since})

RateLimitMessage == "Rate limit exceeded. You can generate up to 10 items per hour."

\* Faulty variant: a user is denied only beyond RATE_LIMIT_MAX rows.
checkRateLimitAbove(query, at) ==
    IF query.error
    THEN [allowed |-> TRUE, remaining |-> RATE_LIMIT_MAX, resetAt |-> at + RateWindow,
          error |-> ""]
    ELSE LET used      == query.count
             remaining == Max(0, RATE_LIMIT_MAX - used)
         IN  IF used > RATE_LIMIT_MAX
             THEN [allowed |-> FALSE, remaining |-> 0, resetAt |-> at + RateWindow,
                   error |-> RateLimitMessage]
             ELSE [allowed |-> TRUE, remaining |-> remaining, resetAt |-> at + RateWindow,
                   error |-> ""]

\* Faulty variant: an error of the count query denies the request.
checkRateLimitFailClosed(query, at) ==
    IF query.error
    THEN [allowed |-> FALSE, remaining |-> 0, resetAt |-> at + RateWindow,
          error |-> RateLimitMessage]
    ELSE LET used      == query.count
             remaining == Max(0, RATE_LIMIT_MAX - used)
         IN  IF used >= RATE_LIMIT_MAX
             THEN [allowed |-> FALSE, remaining |-> 0, resetAt |-> at + RateWindow,
                   error |-> RateLimitMessage]
             ELSE [allowed |-> TRUE, remaining |-> remaining, resetAt |-> at + RateWindow,
                   error |-> ""]

\* Lines 27-46 of api-helpers, given the { count, error } of the count
\* query and Date.now().
checkRateLimit(query, at) ==
    IF query.error
    THEN [allowed |-> TRUE, remaining |-> RATE_LIMIT_MAX, resetAt |-> at + RateWindow,
          error |-> ""]
    ELSE LET used      == query.count
             remaining == Max(0, RATE_LIMIT_MAX - used)
         IN  IF used >= RATE_LIMIT_MAX
             THEN [allowed |-> FALSE, remaining |-> 0, resetAt |-> at + RateWindow,
                   error |-> RateLimitMessage]
             ELSE [allowed |-> TRUE, remaining |-> remaining, resetAt |-> at + RateWindow,
                   error |-> ""]

\* Lines 68-77 of api-helpers: of the rows of userId for pdfFilename and
\* contentType created at or after `since`, the latest one (created_at
\* never decreases along store, so it is the one inserted last); single()
\* makes an empty result an error.
EntryQuery(rows, userId, pdfFilename, contentType, since) ==
    LET matching == {i \in DOMAIN rows : /\ rows[i].user_id = userId
                                         /\ rows[i].pdf_filename = pdfFilename
                                         /\ rows[i].content_type = contentType
                                         /\ rows[i].created_at >= since}
    IN  IF matching = {}
        THEN [data |-> NoRow, error |-> TRUE]
        ELSE [data |-> rows[MaxOfSet(matching)], error |-> FALSE]

\* Faulty variant: the difficulty of the row is not looked at.
checkCachedContentAnyDifficulty(query, difficulty) ==
    IF query.error \/ query.data = NoRow
    THEN NoRow
    ELSE query.data

\* Lines 79-89 of api-helpers, given the { data, error } of the entry query.
checkCachedContent(query, difficulty) ==
    IF query.error \/ query.data = NoRow
    THEN NoRow
    ELSE IF query.data.difficulty # difficulty
         THEN NoRow
         ELSE query.data

\* The hit condition of the handler: `cached` for flashcards, `cached &&
\* cached.content_data.audioUrl` for a podcast (line 148), `cached &&
\* cached.content_data.slides` for slides.
HitServed(kind, row) ==
    /\ row # NoRow
    /\ kind \in {"podcast", "slides"} => row.complete

Response(status, error) ==
    [status |-> status, error |-> error, cached |-> FALSE, entry |-> NoRow, rateHeaders |-> <<>>]

NoResponse == Response(0, "")

\* Lines 119-128: status 429 with X-RateLimit-Remaining and X-RateLimit-Reset.
RateLimitedResponse(result) ==
    [Response(429, result.error) EXCEPT !.rateHeaders = <<result.remaining, result.resetAt>>]

\* Lines 150-162: the stored content, metadata.cached = true.
CachedResponse(row) ==
    [Response(200, "") EXCEPT !.cached = TRUE, !.entry = row]

NoRateQuery   == [made |-> FALSE, count |-> 0, error |-> FALSE]
NoRateResult  == [allowed |-> FALSE, remaining |-> 0, resetAt |-> 0, error |-> "not called"]
NoCacheQuery  == [made |-> FALSE, data |-> NoRow, error |-> FALSE]
AbsentRequest ==
    [user |-> "none", hasFile |-> FALSE, kind |-> "quiz", pdf_filename |-> "f1",
     difficulty |-> "basic", skipCache |-> FALSE]

IdleContent ==
    /\ store = <<>>
    /\ now = 0
    /\ cRequest = [r \in Requests |-> AbsentRequest]
    /\ cPc = [r \in Requests |-> "absent"]
    /\ rateQuery = [r \in Requests |-> NoRateQuery]
    /\ rateLimitResult = [r \in Requests |-> NoRateResult]
    /\ cacheQuery = [r \in Requests |-> NoCacheQuery]
    /\ cached = [r \in Requests |-> NoRow]
    /\ calls = [r \in Requests |-> {}]
    /\ audioUrl = [r \in Requests |-> FALSE]
    /\ saved = [r \in Requests |-> "none"]
    /\ cResponse = [r \in Requests |-> NoResponse]

\* The requests of one user for one file at one difficulty: the session of
\* u1 or none, with or without the pdf field, for each content type, with
\* or without skipCache.
RequestMenu ==
    [user : {"u1", "none"}, hasFile : BOOLEAN, kind : Kinds, pdf_filename : {"f1"},
     difficulty : {"basic"}, skipCache : BOOLEAN]

\* Rows stored earlier, at tick 0: a row for what RequestMenu asks for or
\* one that differs from it in the user, the file name or the difficulty,
\* of any content type, and a podcast stored without audioUrl (its upload
\* failed).
StoredRows ==
    {Row(k[1], k[2], t, k[3], TRUE, 0) :
         k \in {<<"u1", "f1", "basic">>, <<"u2", "f1", "basic">>, <<"u1", "f2", "basic">>,
                <<"u1", "f1", "advanced">>},
         t \in CachedKinds}
        \cup {Row("u1", "f1", "podcast", "basic", FALSE, 0)}

\* n rows u1 generated at tick 0 for another file.
Filler(n) == [k \in 1..n |-> Row("u1", "f0", "flashcards", "basic", TRUE, 0)]

\* The table before the request: no, one short of RATE_LIMIT_MAX or
\* RATE_LIMIT_MAX rows of u1 for another file, then up to two of StoredRows.
InitialStores ==
    {Filler(n) \o rows :
         n \in {0, RATE_LIMIT_MAX - 1, RATE_LIMIT_MAX},
         rows \in {<<>>} \cup {<<a>> : a \in StoredRows}
                         \cup {<<a, b>> : a \in StoredRows, b \in StoredRows}}

\* One request against a table with rows in it.
InitContent ==
    /\ store \in InitialStores
    /\ now = 0
    /\ \E q \in RequestMenu : cRequest = [r \in Requests |-> IF r = 1 THEN q ELSE AbsentRequest]
    /\ cPc = [r \in Requests |-> IF r = 1 THEN "start" ELSE "absent"]
    /\ rateQuery = [r \in Requests |-> NoRateQuery]
    /\ rateLimitResult = [r \in Requests |-> NoRateResult]
    /\ cacheQuery = [r \in Requests |-> NoCacheQuery]
    /\ cached = [r \in Requests |-> NoRow]
    /\ calls = [r \in Requests |-> {}]
    /\ audioUrl = [r \in Requests |-> FALSE]
    /\ saved = [r \in Requests |-> "none"]
    /\ cResponse = [r \in Requests |-> NoResponse]

\* MaxRequests requests of u1 for flashcards of one file, in flight
\* together, against a table with up to RATE_LIMIT_MAX rows of u1.
InitConcurrent ==
    /\ store \in {Filler(n) : n \in (RATE_LIMIT_MAX - MaxRequests)..RATE_LIMIT_MAX}
    /\ now = 0
    /\ cRequest \in [Requests -> [user : {"u1"}, hasFile : {TRUE}, kind : {"flashcards"},
                                  pdf_filename : {"f1"}, difficulty : {"basic"},
                                  skipCache : BOOLEAN]]
    /\ cPc = [r \in Requests |-> "start"]
    /\ rateQuery = [r \in Requests |-> NoRateQuery]
    /\ rateLimitResult = [r \in Requests |-> NoRateResult]
    /\ cacheQuery = [r \in Requests |-> NoCacheQuery]
    /\ cached = [r \in Requests |-> NoRow]
    /\ calls = [r \in Requests |-> {}]
    /\ audioUrl = [r \in Requests |-> FALSE]
    /\ saved = [r \in Requests |-> "none"]
    /\ cResponse = [r \in Requests |-> NoResponse]

Respond(r, resp) ==
    /\ cResponse' = [cResponse EXCEPT ![r] = resp]
    /\ cPc' = [cPc EXCEPT ![r] = "responded"]

\* Faulty variant: a user who is not allowed is still served a fresh cached
\* result of the identical request (the cache is consulted before the
\* denial).
CheckRateLimitStepCacheFirst(r) ==
    /\ cPc[r] = "start"
    /\ cRequest[r].kind \in CachedKinds
    /\ IF cRequest[r].user = "none"
       THEN /\ Respond(r, Response(401, "Unauthorized. Please log in."))
            /\ UNCHANGED <<rateQuery, rateLimitResult>>
       ELSE \E query \in {[count |-> CountQuery(store, cRequest[r].user, now - RateWindow),
                           error |-> FALSE],
                          [count |-> 0, error |-> TRUE]} :
                LET result == checkRateLimit(query, now)
                    hit    == checkCachedContent(
                                  EntryQuery(store, cRequest[r].user, cRequest[r].pdf_filename,
                                             cRequest[r].kind, now - CacheWindow),
                                  cRequest[r].difficulty)
                IN  /\ rateQuery' = [rateQuery EXCEPT
                                         ![r] = [made |-> TRUE, count |-> query.count,
                                                 error |-> query.error]]
                    /\ rateLimitResult' = [rateLimitResult EXCEPT ![r] = result]
                    /\ IF ~result.allowed
                       THEN IF cRequest[r].hasFile /\ HitServed(cRequest[r].kind, hit)
                            THEN Respond(r, CachedResponse(hit))
                            ELSE Respond(r, RateLimitedResponse(result))
                       ELSE /\ cPc' = [cPc EXCEPT ![r] = "form"]
                            /\ UNCHANGED cResponse
    /\ UNCHANGED <<store, now, cRequest, cacheQuery, cached, calls, audioUrl, saved>>

\* Lines 104-129: the handler of a rate-limited content type authenticates
\* the user, awaits checkRateLimit and answers 429 when it is not allowed.
\* The count query answers with the count or with an error.
CheckRateLimitStep(r) ==
    /\ cPc[r] = "start"
    /\ cRequest[r].kind \in CachedKinds
    /\ IF cRequest[r].user = "none"
       THEN /\ Respond(r, Response(401, "Unauthorized. Please log in."))
            /\ UNCHANGED <<rateQuery, rateLimitResult>>
       ELSE \E query \in {[count |-> CountQuery(store, cRequest[r].user, now - RateWindow),
                           error |-> FALSE],
                          [count |-> 0, error |-> TRUE]} :
                LET result == checkRateLimit(query, now)
                IN  /\ rateQuery' = [rateQuery EXCEPT
                                         ![r] = [made |-> TRUE, count |-> query.count,
                                                 error |-> query.error]]
                    /\ rateLimitResult' = [rateLimitResult EXCEPT ![r] = result]
                    /\ IF ~result.allowed
                       THEN Respond(r, RateLimitedResponse(result))
                       ELSE /\ cPc' = [cPc EXCEPT ![r] = "form"]
                            /\ UNCHANGED cResponse
    /\ UNCHANGED <<store, now, cRequest, cacheQuery, cached, calls, audioUrl, saved>>

\* Lines 131-160 of process-pdf/route.ts: the quiz handler reads the form
\* and goes on to the extraction; it calls neither getUser nor
\* checkRateLimit nor checkCachedContent.
QuizRequest(r) ==
    /\ cPc[r] = "start"
    /\ cRequest[r].kind = "quiz"
    /\ IF ~cRequest[r].hasFile
       THEN Respond(r, Response(400, "No PDF file provided"))
       ELSE /\ cPc' = [cPc EXCEPT ![r] = "extract"]
            /\ UNCHANGED cResponse
    /\ UNCHANGED <<store, now, cRequest, rateQuery, rateLimitResult, cacheQuery, cached, calls,
                   audioUrl, saved>>

\* Faulty variant: a hit is logged and the handler goes on to generate.
CheckCacheStepNoReturn(r) ==
    /\ cPc[r] = "form"
    /\ IF ~cRequest[r].hasFile
       THEN /\ Respond(r, Response(400, "No PDF file provided."))
            /\ UNCHANGED <<cacheQuery, cached>>
       ELSE IF cRequest[r].skipCache
       THEN /\ cPc' = [cPc EXCEPT ![r] = "extract"]
            /\ UNCHANGED <<cacheQuery, cached, cResponse>>
       ELSE \E query \in {EntryQuery(store, cRequest[r].user, cRequest[r].pdf_filename,
                                     cRequest[r].kind, now - CacheWindow),
                          [data |-> NoRow, error |-> TRUE]} :
                LET hit == checkCachedContent(query, cRequest[r].difficulty)
                IN  /\ cacheQuery' = [cacheQuery EXCEPT
                                          ![r] = [made |-> TRUE, data |-> query.data,
                                                  error |-> query.error]]
                    /\ cached' = [cached EXCEPT ![r] = hit]
                    /\ cPc' = [cPc EXCEPT ![r] = "extract"]
                    /\ UNCHANGED cResponse
    /\ UNCHANGED <<store, now, cRequest, rateQuery, rateLimitResult, calls, audioUrl, saved>>

\* Lines 131-164: the form is read; without a file the answer is 400; with
\* skipCache the cache is not looked at; otherwise checkCachedContent is
\* awaited and a hit the handler can serve is returned as cached.  The
\* entry query answers with the latest matching row or with an error.
CheckCacheStep(r) ==
    /\ cPc[r] = "form"
    /\ IF ~cRequest[r].hasFile
       THEN /\ Respond(r, Response(400, "No PDF file provided."))
            /\ UNCHANGED <<cacheQuery, cached>>
       ELSE IF cRequest[r].skipCache
       THEN /\ cPc' = [cPc EXCEPT ![r] = "extract"]
            /\ UNCHANGED <<cacheQuery, cached, cResponse>>
       ELSE \E query \in {EntryQuery(store, cRequest[r].user, cRequest[r].pdf_filename,
                                     cRequest[r].kind, now - CacheWindow),
                          [data |-> NoRow, error |-> TRUE]} :
                LET hit == checkCachedContent(query, cRequest[r].difficulty)
                IN  /\ cacheQuery' = [cacheQuery EXCEPT
                                          ![r] = [made |-> TRUE, data |-> query.data,
                                                  error |-> query.error]]
                    /\ cached' = [cached EXCEPT ![r] = hit]
                    /\ IF HitServed(cRequest[r].kind, hit)
                       THEN Respond(r, CachedResponse(hit))
                       ELSE /\ cPc' = [cPc EXCEPT ![r] = "extract"]
                            /\ UNCHANGED cResponse
    /\ UNCHANGED <<store, now, cRequest, rateQuery, rateLimitResult, calls, audioUrl, saved>>

\* Lines 166-178: pdfParse is called; it throws (catch block, 500), yields
\* no text (400) or yields a text.
ExtractText(r) ==
    /\ cPc[r] = "extract"
    /\ calls' = [calls EXCEPT ![r] = @ \cup {"extract"}]
    /\ \E outcome \in {"throws", "empty", "text"} :
           CASE outcome = "throws" -> Respond(r, Response(500, "Failed to generate."))
             [] outcome = "empty"  ->
                    Respond(r, Response(400, "No text could be extracted from the PDF."))
             [] outcome = "text"   -> /\ cPc' = [cPc EXCEPT ![r] = "generate"]
                                      /\ UNCHANGED cResponse
    /\ UNCHANGED <<store, now, cRequest, rateQuery, rateLimitResult, cacheQuery, cached,
                   audioUrl, saved>>

\* Lines 180-215: the generative collaborator is called (through withRetry);
\* the call throws with or without 'rate limit' in its message (catch
\* block, 429 or 500), answers with something unusable (500) or with the
\* content.  The quiz handler answers with its questions and stores
\* nothing; the podcast handler goes on to the speech.
GenerateContent(r) ==
    /\ cPc[r] = "generate"
    /\ calls' = [calls EXCEPT ![r] = @ \cup {"generate"}]
    /\ \E outcome \in {"throws", "throwsRateLimit", "unusable", "content"} :
           CASE outcome = "throws"          -> Respond(r, Response(500, "Failed to generate."))
             [] outcome = "throwsRateLimit" ->
                    Respond(r, Response(429, "Service is busy. Please try again."))
             [] outcome = "unusable"        ->
                    Respond(r, Response(500, "Failed to generate. Please try again."))
             [] outcome = "content"         ->
                    IF cRequest[r].kind = "quiz"
                    THEN Respond(r, Response(200, ""))
                    ELSE /\ cPc' = [cPc EXCEPT
                                        ![r] = IF cRequest[r].kind = "podcast" THEN "speech"
                                               ELSE "save"]
                         /\ UNCHANGED cResponse
    /\ UNCHANGED <<store, now, cRequest, rateQuery, rateLimitResult, cacheQuery, cached,
                   audioUrl, saved>>

\* Lines 217-260: the speech collaborator is called for the script; it
\* throws (catch block, 500) or the audio is uploaded, which gives a signed
\* URL or, when the upload fails, an empty audioUrl.
SynthesizeSpeech(r) ==
    /\ cPc[r] = "speech"
    /\ calls' = [calls EXCEPT ![r] = @ \cup {"speech"}]
    /\ \E outcome \in {"throws", "uploaded", "uploadFailed"} :
           IF outcome = "throws"
           THEN /\ Respond(r, Response(500, "Failed to generate podcast."))
                /\ UNCHANGED audioUrl
           ELSE /\ audioUrl' = [audioUrl EXCEPT ![r] = (outcome = "uploaded")]
                /\ cPc' = [cPc EXCEPT ![r] = "save"]
                /\ UNCHANGED cResponse
    /\ UNCHANGED <<store, now, cRequest, rateQuery, rateLimitResult, cacheQuery, cached, saved>>

\* Lines 266-299: the content is inserted into generated_content with the
\* difficulty of the request; an error of the insert is logged only; the
\* fresh content is returned.
SaveContent(r) ==
    /\ cPc[r] = "save"
    /\ \E saveError \in BOOLEAN :
           IF saveError
           THEN /\ saved' = [saved EXCEPT ![r] = "error"]
                /\ UNCHANGED store
           ELSE /\ saved' = [saved EXCEPT ![r] = "ok"]
                /\ store' = Append(store,
                                   Row(cRequest[r].user, cRequest[r].pdf_filename,
                                       cRequest[r].kind, cRequest[r].difficulty,
                                       cRequest[r].kind = "podcast" => audioUrl[r], now))
    /\ Respond(r, Response(200, ""))
    /\ UNCHANGED <<now, cRequest, rateQuery, rateLimitResult, cacheQuery, cached, calls,
                   audioUrl>>

\* Time passes.
Tick ==
    /\ now < MaxClock
    /\ now' = now + 1
    /\ UNCHANGED <<store, cRequest, cPc, rateQuery, rateLimitResult, cacheQuery, cached, calls,
                   audioUrl, saved, cResponse>>

-----------------------------------------------------------------------------
(* Speech stage: generate-podcast/route.ts splitTextIntoChunks and the   *)
(* speech loop of POST                                                   *)

MaxScriptLen == 6
MaxMaxLength == 3

\* The 500 of line 44 (how far back from maxLength a sentence end is looked
\* for), scaled to the script lengths the model explores.
SentenceLookback == 2

ScriptChars == {"a", ".", " ", "\n"}

Scripts == UNION {[1..n -> ScriptChars] : n \in 0..MaxScriptLen}

\* Lines 46: '.', '!' or '?'.
SentenceEnds == {".", "!", "?"}

\* Lines 43-51: one past the last index i of chunk, not below
\* maxLength - 500 and not below 0, that holds a sentence end which is the
\* last character of chunk or is followed by a space or a newline; -1 when
\* there is none.
lastSentenceEnd(chunk, maxLen) ==
    LET hits == {i \in Max(maxLen - SentenceLookback, 0)..(Len(chunk) - 1) :
                     /\ chunk[i + 1] \in SentenceEnds
                     /\ \/ i = Len(chunk) - 1
                        \/ chunk[i + 2] \in {" ", "\n"}}
    IN  IF hits = {} THEN -1 ELSE MaxOfSet(hits) + 1

\* String.prototype.lastIndexOf(c, fromIndex): the last index <= fromIndex
\* that holds c, or -1.
LastIndexOfFrom(str, c, fromIndex) ==
    LET hits == {k \in 0..Min(fromIndex, Len(str) - 1) : str[k + 1] = c}
    IN  IF hits = {} THEN -1 ELSE MaxOfSet(hits)

\* Faulty variant: without a sentence end or a space there is no cut and
\* the whole remaining text is taken.
splitIndexNoHardCut(rem, maxLen) ==
    LET sentenceEnd == lastSentenceEnd(Slice(rem, 0, maxLen), maxLen)
        lastSpace   == LastIndexOfFrom(rem, " ", maxLen)
    IN  IF 2 * sentenceEnd > maxLen
        THEN sentenceEnd
        ELSE IF 2 * lastSpace > maxLen THEN lastSpace ELSE Len(rem)

\* Lines 37-61: the split index for a remaining text longer than maxLength:
\* the last sentence end if it lies beyond maxLength / 2, else the last
\* space at or before maxLength if it lies beyond maxLength / 2, else
\* maxLength.
splitIndex(rem, maxLen) ==
    LET sentenceEnd == lastSentenceEnd(Slice(rem, 0, maxLen), maxLen)
        lastSpace   == LastIndexOfFrom(rem, " ", maxLen)
    IN  IF 2 * sentenceEnd > maxLen
        THEN sentenceEnd
        ELSE IF 2 * lastSpace > maxLen THEN lastSpace ELSE maxLen

\* What openai.audio.speech.create returns for the call-th call: the audio
\* of its input.
Segment(input, call) == [input |-> input, call |-> call]

IdleSpeech ==
    /\ script = <<>>
    /\ maxLength = 1
    /\ remainingText = <<>>
    /\ scriptChunks = <<>>
    /\ cuts = <<>>
    /\ audioBuffers = <<>>
    /\ speechCalls = <<>>
    /\ audioBuffer = <<>>
    /\ spPc = "idle"

InitSpeech ==
    /\ script \in Scripts
    /\ maxLength \in 1..MaxMaxLength
    /\ remainingText = <<>>
    /\ scriptChunks = <<>>
    /\ cuts = <<>>
    /\ audioBuffers = <<>>
    /\ speechCalls = <<>>
    /\ audioBuffer = <<>>
    /\ spPc = "start"

\* Lines 27-28.
SplitStart ==
    /\ spPc = "start"
    /\ remainingText' = Trim(script)
    /\ spPc' = "split"
    /\ UNCHANGED <<script, maxLength, scriptChunks, cuts, audioBuffers, speechCalls,
                   audioBuffer>>

\* Line 30 with nothing remaining (a blank script): the loop is not
\* entered and no piece is returned.
SplitEmpty ==
    /\ spPc = "split"
    /\ Len(remainingText) = 0
    /\ spPc' = "speech"
    /\ UNCHANGED <<script, maxLength, remainingText, scriptChunks, cuts, audioBuffers,
                   speechCalls, audioBuffer>>

\* Lines 31-34: what remains fits and is the last piece.
SplitTail ==
    /\ spPc = "split"
    /\ Len(remainingText) > 0
    /\ Len(remainingText) <= maxLength
    /\ scriptChunks' = Append(scriptChunks, remainingText)
    /\ spPc' = "speech"
    /\ UNCHANGED <<script, maxLength, remainingText, cuts, audioBuffers, speechCalls,
                   audioBuffer>>

\* Faulty variant: the character at the split index is taken for the
\* separator and skipped.
SplitStepSkipSeparator ==
    /\ spPc = "split"
    /\ Len(remainingText) > maxLength
    /\ LET at    == splitIndex(remainingText, maxLength)
           piece == Trim(Slice(remainingText, 0, at))
           rest  == Trim(Slice(remainingText, at + 1, Len(remainingText)))
       IN  /\ scriptChunks' = Append(scriptChunks, piece)
           /\ remainingText' = rest
           /\ cuts' = Append(cuts, SubSeq(remainingText, Len(piece) + 1,
                                          Len(remainingText) - Len(rest)))
    /\ UNCHANGED <<script, maxLength, audioBuffers, speechCalls, audioBuffer, spPc>>

\* Lines 36-64: one iteration that splits: the text before the split index,
\* trimmed, is a piece; the text from the split index on, trimmed, remains.
SplitStep ==
    /\ spPc = "split"
    /\ Len(remainingText) > maxLength
    /\ LET at    == splitIndex(remainingText, maxLength)
           piece == Trim(Slice(remainingText, 0, at))
           rest  == Trim(Slice(remainingText, at, Len(remainingText)))
       IN  /\ scriptChunks' = Append(scriptChunks, piece)
           /\ remainingText' = rest
           /\ cuts' = Append(cuts, SubSeq(remainingText, Len(piece) + 1,
                                          Len(remainingText) - Len(rest)))
    /\ UNCHANGED <<script, maxLength, audioBuffers, speechCalls, audioBuffer, spPc>>

\* Faulty variant: the new segment is put in front of the earlier ones.
SpeechCallUnshift ==
    /\ spPc = "speech"
    /\ Len(audioBuffers) < Len(scriptChunks)
    /\ LET chunk == scriptChunks[Len(audioBuffers) + 1]
       IN  /\ speechCalls' = Append(speechCalls, chunk)
           /\ \E throws \in BOOLEAN :
                  IF throws
                  THEN /\ spPc' = "failed"
                       /\ UNCHANGED audioBuffers
                  ELSE /\ audioBuffers' =
                              <<Segment(chunk, Len(speechCalls) + 1)>> \o audioBuffers
                       /\ UNCHANGED spPc
    /\ UNCHANGED <<script, maxLength, remainingText, scriptChunks, cuts, audioBuffer>>

\* Lines 220-232: the next piece of scriptChunks is sent to the speech
\* collaborator and awaited; its audio is pushed onto audioBuffers, its
\* error leaves the loop for the catch block.
SpeechCall ==
    /\ spPc = "speech"
    /\ Len(audioBuffers) < Len(scriptChunks)
    /\ LET chunk == scriptChunks[Len(audioBuffers) + 1]
       IN  /\ speechCalls' = Append(speechCalls, chunk)
           /\ \E throws \in BOOLEAN :
                  IF throws
                  THEN /\ spPc' = "failed"
                       /\ UNCHANGED audioBuffers
                  ELSE /\ audioBuffers' =
                              Append(audioBuffers, Segment(chunk, Len(speechCalls) + 1))
                       /\ UNCHANGED spPc
    /\ UNCHANGED <<script, maxLength, remainingText, scriptChunks, cuts, audioBuffer>>

\* Line 235: Buffer.concat(audioBuffers) after the loop.
ConcatAudio ==
    /\ spPc = "speech"
    /\ Len(audioBuffers) = Len(scriptChunks)
    /\ audioBuffer' = audioBuffers
    /\ spPc' = "done"
    /\ UNCHANGED <<script, maxLength, remainingText, scriptChunks, cuts, audioBuffers,
                   speechCalls>>

-----------------------------------------------------------------------------
(* Specifications *)

DistributeInit ==
    InitDistribute /\ IdleSelect /\ IdleDedupe /\ IdleChunk /\ IdleHandler /\ IdleRetry /\ IdleContent
        /\ IdleSpeech
        /\ IdleSplit

DistributeNext == Distribute /\ UNCHANGED <<selVars, ddVars, ckVars, hVars, rtVars, cVars, spVars, fbVars>>

SpecDistribute == DistributeInit /\ [][DistributeNext]_vars

SelectInit ==
    InitSelect /\ IdleDistribute /\ IdleDedupe /\ IdleChunk /\ IdleHandler /\ IdleRetry /\ IdleContent
        /\ IdleSpeech
        /\ IdleSplit

SelectNext == Select /\ UNCHANGED <<dqVars, ddVars, ckVars, hVars, rtVars, cVars, spVars, fbVars>>

SpecSelect == SelectInit /\ [][SelectNext]_vars

DedupeInit ==
    InitDedupe /\ IdleDistribute /\ IdleSelect /\ IdleChunk /\ IdleHandler /\ IdleRetry /\ IdleContent
        /\ IdleSpeech
        /\ IdleSplit

DedupeNext ==
    \/ Dedupe /\ UNCHANGED <<dqVars, selVars, ckVars, hVars, rtVars, cVars, spVars, fbVars>>
    \/ DedupeAgain /\ UNCHANGED <<dqVars, selVars, ckVars, hVars, rtVars, cVars, spVars, fbVars>>

SpecDedupe == DedupeInit /\ [][DedupeNext]_vars

ChunkInit ==
    InitChunk /\ IdleDistribute /\ IdleSelect /\ IdleDedupe /\ IdleHandler /\ IdleRetry /\ IdleContent
        /\ IdleSpeech
        /\ IdleSplit

ChunkNext ==
    \/ ChunkTextStart /\ UNCHANGED <<dqVars, selVars, ddVars, hVars, rtVars, cVars, spVars, fbVars>>
    \/ ChunkTextTail /\ UNCHANGED <<dqVars, selVars, ddVars, hVars, rtVars, cVars, spVars, fbVars>>
    \/ ChunkTextStep /\ UNCHANGED <<dqVars, selVars, ddVars, hVars, rtVars, cVars, spVars, fbVars>>

SpecChunk == ChunkInit /\ [][ChunkNext]_vars

ChunkWideInit ==
    InitChunkWide /\ IdleDistribute /\ IdleSelect /\ IdleDedupe /\ IdleHandler /\ IdleRetry
        /\ IdleContent /\ IdleSpeech
        /\ IdleSplit

\* chunkText under WideChunkOptions.
ChunkWideNext ==
    \/ ChunkTextStart /\ UNCHANGED <<dqVars, selVars, ddVars, hVars, rtVars, cVars, spVars, fbVars>>
    \/ ChunkTextTail /\ UNCHANGED <<dqVars, selVars, ddVars, hVars, rtVars, cVars, spVars, fbVars>>
    \/ ChunkTextStep /\ UNCHANGED <<dqVars, selVars, ddVars, hVars, rtVars, cVars, spVars, fbVars>>

SpecChunkWide == ChunkWideInit /\ [][ChunkWideNext]_vars

HandlerInit ==
    InitHandler /\ IdleDistribute /\ IdleSelect /\ IdleDedupe /\ IdleChunk /\ IdleRetry /\ IdleContent
        /\ IdleSpeech
        /\ IdleSplit

HandlerNext ==
    \/ ReceiveRequest /\ UNCHANGED <<dqVars, selVars, ddVars, ckVars, rtVars, cVars, spVars, fbVars>>
    \/ StartSingleCall /\ UNCHANGED <<dqVars, selVars, ddVars, ckVars, rtVars, cVars, spVars, fbVars>>
    \/ SingleCallSettles /\ UNCHANGED <<dqVars, selVars, ddVars, ckVars, rtVars, cVars, spVars, fbVars>>
    \/ FanOut /\ UNCHANGED <<dqVars, selVars, ddVars, ckVars, rtVars, cVars, spVars, fbVars>>
    \/ \E index \in 1..Len(chunkPromises) :
           ChunkCallSettles(index) /\ UNCHANGED <<dqVars, selVars, ddVars, ckVars, rtVars, cVars, spVars, fbVars>>
    \/ AwaitAll /\ UNCHANGED <<dqVars, selVars, ddVars, ckVars, rtVars, cVars, spVars, fbVars>>

SpecHandler == HandlerInit /\ [][HandlerNext]_vars

RetryInit ==
    InitRetry /\ IdleDistribute /\ IdleSelect /\ IdleDedupe /\ IdleChunk /\ IdleHandler
        /\ IdleContent
        /\ IdleSpeech
        /\ IdleSplit

RetryNext ==
    \/ InvokeFn /\ UNCHANGED <<dqVars, selVars, ddVars, ckVars, hVars, cVars, spVars, fbVars>>
    \/ FnSettles /\ UNCHANGED <<dqVars, selVars, ddVars, ckVars, hVars, cVars, spVars, fbVars>>
    \/ DelayElapses /\ UNCHANGED <<dqVars, selVars, ddVars, ckVars, hVars, cVars, spVars, fbVars>>

SpecRetry == RetryInit /\ [][RetryNext]_vars

ContentInit ==
    InitContent /\ IdleDistribute /\ IdleSelect /\ IdleDedupe /\ IdleChunk /\ IdleHandler
        /\ IdleRetry
        /\ IdleSpeech
        /\ IdleSplit

ContentNext ==
    \/ \E r \in Requests :
           CheckRateLimitStep(r) /\ UNCHANGED <<dqVars, selVars, ddVars, ckVars, hVars, rtVars, spVars, fbVars>>
    \/ \E r \in Requests :
           QuizRequest(r) /\ UNCHANGED <<dqVars, selVars, ddVars, ckVars, hVars, rtVars, spVars, fbVars>>
    \/ \E r \in Requests :
           CheckCacheStep(r) /\ UNCHANGED <<dqVars, selVars, ddVars, ckVars, hVars, rtVars, spVars, fbVars>>
    \/ \E r \in Requests :
           ExtractText(r) /\ UNCHANGED <<dqVars, selVars, ddVars, ckVars, hVars, rtVars, spVars, fbVars>>
    \/ \E r \in Requests :
           GenerateContent(r) /\ UNCHANGED <<dqVars, selVars, ddVars, ckVars, hVars, rtVars, spVars, fbVars>>
    \/ \E r \in Requests :
           SynthesizeSpeech(r) /\ UNCHANGED <<dqVars, selVars, ddVars, ckVars, hVars, rtVars, spVars, fbVars>>
    \/ \E r \in Requests :
           SaveContent(r) /\ UNCHANGED <<dqVars, selVars, ddVars, ckVars, hVars, rtVars, spVars, fbVars>>
    \/ Tick /\ UNCHANGED <<dqVars, selVars, ddVars, ckVars, hVars, rtVars, spVars, fbVars>>

SpecContent == ContentInit /\ [][ContentNext]_vars

ConcurrentInit ==
    InitConcurrent /\ IdleDistribute /\ IdleSelect /\ IdleDedupe /\ IdleChunk /\ IdleHandler
        /\ IdleRetry
        /\ IdleSpeech
        /\ IdleSplit

\* The flashcards handler serving several requests within one window.
ConcurrentNext ==
    \/ \E r \in Requests :
           CheckRateLimitStep(r) /\ UNCHANGED <<dqVars, selVars, ddVars, ckVars, hVars, rtVars, spVars, fbVars>>
    \/ \E r \in Requests :
           CheckCacheStep(r) /\ UNCHANGED <<dqVars, selVars, ddVars, ckVars, hVars, rtVars, spVars, fbVars>>
    \/ \E r \in Requests :
           ExtractText(r) /\ UNCHANGED <<dqVars, selVars, ddVars, ckVars, hVars, rtVars, spVars, fbVars>>
    \/ \E r \in Requests :
           GenerateContent(r) /\ UNCHANGED <<dqVars, selVars, ddVars, ckVars, hVars, rtVars, spVars, fbVars>>
    \/ \E r \in Requests :
           SaveContent(r) /\ UNCHANGED <<dqVars, selVars, ddVars, ckVars, hVars, rtVars, spVars, fbVars>>

SpecConcurrent == ConcurrentInit /\ [][ConcurrentNext]_vars

SpeechInit ==
    InitSpeech /\ IdleDistribute /\ IdleSelect /\ IdleDedupe /\ IdleChunk /\ IdleHandler
        /\ IdleRetry /\ IdleContent
        /\ IdleSplit

SpeechNext ==
    \/ SplitStart /\ UNCHANGED <<dqVars, selVars, ddVars, ckVars, hVars, rtVars, cVars, fbVars>>
    \/ SplitEmpty /\ UNCHANGED <<dqVars, selVars, ddVars, ckVars, hVars, rtVars, cVars, fbVars>>
    \/ SplitTail /\ UNCHANGED <<dqVars, selVars, ddVars, ckVars, hVars, rtVars, cVars, fbVars>>
    \/ SplitStep /\ UNCHANGED <<dqVars, selVars, ddVars, ckVars, hVars, rtVars, cVars, fbVars>>
    \/ SpeechCall /\ UNCHANGED <<dqVars, selVars, ddVars, ckVars, hVars, rtVars, cVars, fbVars>>
    \/ ConcatAudio /\ UNCHANGED <<dqVars, selVars, ddVars, ckVars, hVars, rtVars, cVars, fbVars>>

SpecSpeech == SpeechInit /\ [][SpeechNext]_vars

SplitInit ==
    InitSplit /\ IdleDistribute /\ IdleSelect /\ IdleDedupe /\ IdleChunk /\ IdleHandler
        /\ IdleRetry /\ IdleContent /\ IdleSpeech

SplitNext ==
    FindSplit /\ UNCHANGED <<dqVars, selVars, ddVars, ckVars, hVars, rtVars, cVars, spVars>>

SpecSplit == SplitInit /\ [][SplitNext]_vars

-----------------------------------------------------------------------------
(* C1 *)

-----------------------------------------------------------------------------
(* C2 *)

\* C2: when len(chunks) > maxChunks >= 1, selectRepresentativeChunks
\* returns exactly maxChunks chunks taken from strictly increasing input
\* positions, the first being the first input chunk and, when
\* maxChunks > 1, the last being the last input chunk.
C2_SelectCoverage ==
    (selPc = "done" /\ Len(selChunks) > maxChunks) =>
        /\ Len(selected) = maxChunks
        /\ \A k \in 1..Len(selected) : selected[k] \in 1..Len(selChunks)
        /\ \A k \in 1..(Len(selected) - 1) : selected[k] < selected[k + 1]
        /\ selected[1] = selChunks[1]
        /\ maxChunks > 1 => selected[Len(selected)] = selChunks[Len(selChunks)]

\* Two middle slots are filled between the first and the last chunk.
C2_Witness ==
    /\ selPc = "done"
    /\ Len(selChunks) = 9
    /\ maxChunks = 4
    /\ selected = <<1, 4, 6, 9>>

-----------------------------------------------------------------------------
(* C3 *)

\* True when two distinct entries of the list are at least as similar as
\* the threshold.
HasPairAtOrAbove(list, threshold) ==
    \E x, y \in 1..Len(list) :
        /\ x < y
        /\ RatioGreaterEq(calculateSimilarity(list[x].question, list[y].question), threshold)

HasPairAbove(list, threshold) ==
    \E x, y \in 1..Len(list) :
        /\ x < y
        /\ RatioGreater(calculateSimilarity(list[x].question, list[y].question), threshold)

-----------------------------------------------------------------------------
(* C4 *)

\* sub is a subsequence of s: sub[1..] can be matched, in order, inside
\* s[k..].
RECURSIVE IsSubsequenceFrom(_, _, _)
IsSubsequenceFrom(sub, s, k) ==
    IF sub = <<>> THEN TRUE
    ELSE IF k > Len(s) THEN FALSE
    ELSE IF s[k] = Head(sub)
         THEN IsSubsequenceFrom(Tail(sub), s, k + 1)
         ELSE IsSubsequenceFrom(sub, s, k + 1)

\* C4: deduplicateQuestions is idempotent and order-preserving:
\* dedupe(dedupe(x, t), t) = dedupe(x, t), and dedupe(x, t) is a
\* subsequence of x in the same relative order.
C4_IdempotentOrderPreserving ==
    /\ ddPasses = 1 => IsSubsequenceFrom(unique, questions, 1)
    /\ ddPasses = 2 => unique = firstPass

\* The first pass dropped the middle one of three questions, and the second
\* pass has run on its result.
C4_Witness ==
    /\ ddPasses = 2
    /\ Len(questions) = 3
    /\ firstPass = <<questions[1], questions[3]>>
    /\ questions[2] # questions[1]
    /\ questions[2] # questions[3]
    /\ unique = firstPass

-----------------------------------------------------------------------------
(* C5 *)

Covered(i) == \E k \in 1..Len(spans) : spans[k][1] <= i /\ i < spans[k][2]

\* C5: every non-whitespace character position of the normalized text lies
\* inside at least one emitted chunk, and the chunks appear in source order
\* with no stretch of the source skipped between two consecutive emitted
\* chunks, also when an intermediate chunk is dropped for being below
\* minChunkSize.
C5_Coverage ==
    ckPc = "done" =>
        /\ \A i \in 0..(Len(cleanedText) - 1) :
               ~IsWhitespace(cleanedText[i + 1]) => Covered(i)
        /\ \A k \in 1..(Len(spans) - 1) :
               /\ spans[k][1] <= spans[k + 1][1]
               /\ spans[k + 1][1] <= spans[k][2]

-----------------------------------------------------------------------------
(* C6 *)

\* C6 as claimed: every chunk emitted by chunkText has at most maxChunkSize
\* characters.
C6_ChunkAtMostMax ==
    \A k \in 1..Len(chunks) : Len(chunks[k]) <= opts.maxChunkSize

-----------------------------------------------------------------------------
(* C7 *)

\* C7 as claimed: when the normalized text is longer than maxChunkSize, no
\* emitted chunk is shorter than minChunkSize, the final tail chunk
\* included.
C7_NoChunkBelowMin ==
    Len(cleanedText) > opts.maxChunkSize =>
        \A k \in 1..Len(chunks) : Len(chunks[k]) >= opts.minChunkSize

\* C7 amended: when the normalized text is longer than maxChunkSize, no
\* chunk emitted before the final tail chunk is shorter than minChunkSize;
\* the tail chunk is emitted whatever its length.
C7_NoIntermediateChunkBelowMin ==
    Len(cleanedText) > opts.maxChunkSize =>
        \A k \in 1..Len(chunks) :
            (ckPc = "done" /\ k = Len(chunks)) \/ Len(chunks[k]) >= opts.minChunkSize

\* An intermediate chunk was dropped for being too short, another was
\* emitted, and the tail came out shorter than minChunkSize.
C7_Witness ==
    /\ ckPc = "done"
    /\ Len(cleanedText) > opts.maxChunkSize
    /\ opts.minChunkSize >= 2
    /\ Len(chunks) >= 2
    /\ Len(chunks[Len(chunks)]) < opts.minChunkSize
    /\ spans[1][1] > 0

-----------------------------------------------------------------------------
(* C8 *)

\* The handler took the multi-chunk path.
MultiChunkPath == Len(chunkPromises) > 0

Units == 1..Len(chunkPromises)

\* C8: in the multi-chunk path, when a non-empty proper subset of the
\* units fails and at least one succeeding unit returns an item, the
\* handler raises nothing and returns a success response whose items all
\* come from the succeeding units; each failing unit contributes no items.
C8_PartialFailureAbsorbed ==
    (/\ hPc = "responded"
     /\ MultiChunkPath
     /\ errorLog # {}
     /\ errorLog # Units
     /\ \E u \in Units \ errorLog : chunkValues[u] # <<>>)
    =>
    /\ response.status = 200
    /\ Len(response.questions) >= 1
    /\ \A k \in 1..Len(response.questions) : response.questions[k].src[1] \in Units \ errorLog
    /\ \A u \in errorLog : chunkValues[u] = <<>>

\* One of three units failed, and the response holds the differing
\* questions of the other two.
C8_Witness ==
    /\ hPc = "responded"
    /\ Len(chunkPromises) = 3
    /\ errorLog = {2}
    /\ response.status = 200
    /\ Len(response.questions) = 2
    /\ response.questions[1].src[1] = 1
    /\ response.questions[2].src[1] = 3

-----------------------------------------------------------------------------
(* C9 *)

\* C9: whatever order the per-chunk calls complete in, the merged list
\* (before deduplication) is the concatenation of the per-unit results in
\* chunk-index order: it holds every item of every unit once, the items of
\* unit i before those of unit j when i < j, those of one unit in the order
\* the unit returned them.
C9_MergedInChunkOrder ==
    (hPc = "responded" /\ MultiChunkPath) =>
        /\ Len(merged) = SumSeq([u \in Units |-> Len(chunkValues[u])])
        /\ \A u \in Units : \A k \in 1..Len(chunkValues[u]) :
               \E p \in 1..Len(merged) : merged[p] = chunkValues[u][k]
        /\ \A p, q \in 1..Len(merged) :
               p < q => \/ merged[p].src[1] < merged[q].src[1]
                        \/ /\ merged[p].src[1] = merged[q].src[1]
                           /\ merged[p].src[2] < merged[q].src[2]

\* The call for the last chunk completed first, the one for the first
\* chunk last, and all three returned items.
C9_Witness ==
    /\ hPc = "responded"
    /\ settleOrder = <<3, 2, 1>>
    /\ \A u \in Units : Len(chunkValues[u]) = 2
    /\ Len(merged) = 6

-----------------------------------------------------------------------------
(* C10 *)

\* C10: in the multi-chunk path a collaborator call is started for every
\* selected unit, and merging and deduplication start only after every one
\* of those calls has settled; a failing unit neither keeps a sibling call
\* from being started nor lets the handler go on before a sibling has
\* settled.
C10_AllStartedAllAwaited ==
    /\ hPc = "awaitAll" =>
           /\ Len(selectedChunks) = Min(3, chunkResult.chunkCount)
           /\ Len(chunkPromises) = Len(selectedChunks)
    /\ (MultiChunkPath /\ hPc = "responded") =>
           /\ Len(chunkPromises) = Len(selectedChunks)
           /\ \A u \in Units : chunkPromises[u] = "fulfilled"
           /\ \A u \in Units : \E k \in 1..Len(settleOrder) : settleOrder[k] = u
    /\ hPc # "responded" => merged = <<>> /\ allQuestions = <<>>

\* The first call to complete failed; the other two completed after it and
\* the handler answered with their questions.
C10_Witness ==
    /\ hPc = "responded"
    /\ Len(chunkPromises) = 3
    /\ Len(settleOrder) = 3
    /\ settleOrder[1] \in errorLog
    /\ errorLog = {settleOrder[1]}
    /\ response.status = 200

-----------------------------------------------------------------------------
(* C11 *)

\* What the handler has to trim: the answer of the single call, or the
\* per-unit answers concatenated in chunk order and deduplicated at 0.6.
Produced ==
    IF MultiChunkPath
    THEN deduplicateQuestions(FlatInOrder(chunkValues, [k \in Units |-> k]), <<3, 5>>)
    ELSE allQuestions

\* C11: the item list the quiz handler returns never has more than
\* questionCount items; when the merged (in the multi-chunk path,
\* deduplicated) list is longer it is exactly that list's first
\* questionCount items in their order, and when it is not longer it is that
\* list unchanged, without padding.
C11_TrimmedToRequestedTotal ==
    (hPc = "responded" /\ response.status = 200) =>
        /\ Len(response.questions) <= questionCount
        /\ Len(Produced) > questionCount =>
               response.questions = SubSeq(Produced, 1, questionCount)
        /\ Len(Produced) <= questionCount => response.questions = Produced

\* Two items came back for a request of one question; the first is returned.
C11_Witness ==
    /\ hPc = "responded"
    /\ response.status = 200
    /\ questionCount = 1
    /\ Len(Produced) = 2
    /\ response.questions = <<Produced[1]>>

-----------------------------------------------------------------------------
(* C12 *)

\* The invocation fnLog[k] failed with an error shouldRetry accepts.
FailedTransiently(k) == ~fnLog[k].ok /\ shouldRetry(retryPolicy, fnLog[k].error)

\* C12: withRetry invokes fn one call at a time, at most maxRetries + 1
\* times, and goes on to a further invocation only after a failure that
\* shouldRetry accepts; when it ends it returns the success of the last
\* invocation or throws the error of the last invocation, which either
\* shouldRetry rejects or is that of invocation maxRetries + 1; one delay
\* precedes every invocation but the first and none follows the last, so k
\* transient failures and a success end in success after exactly k delays
\* and a non-transient first error is thrown after one invocation.
C12_RetryUntilSettled ==
    /\ inFlight <= 1
    /\ Len(fnLog) + inFlight <= maxRetries + 1
    /\ \A k \in 1..(Len(fnLog) - 1) : FailedTransiently(k)
    /\ rtPc \in {"call", "await"} =>
           /\ Len(delays) = Len(fnLog)
           /\ \A k \in 1..Len(fnLog) : FailedTransiently(k)
    /\ rtPc = "sleep" =>
           /\ Len(delays) = Len(fnLog) - 1
           /\ FailedTransiently(Len(fnLog))
           /\ Len(fnLog) <= maxRetries
    /\ rtPc = "done" =>
           /\ inFlight = 0
           /\ Len(fnLog) >= 1
           /\ Len(delays) = Len(fnLog) - 1
           /\ IF fnLog[Len(fnLog)].ok
              THEN rtResult = [kind |-> "returned"]
              ELSE /\ rtResult = [kind |-> "thrown", error |-> fnLog[Len(fnLog)].error]
                   /\ \/ Len(fnLog) = maxRetries + 1
                      \/ ~shouldRetry(retryPolicy, fnLog[Len(fnLog)].error)

\* fn was rate-limited twice and then succeeded, with maxRetries = 3:
\* withRetry returned after two delays.
C12_Witness ==
    /\ rtPc = "done"
    /\ maxRetries = 3
    /\ retryPolicy = "default"
    /\ Len(fnLog) = 3
    /\ fnLog[1] = [ok |-> FALSE, error |-> [status |-> 429, responseStatus |-> 0]]
    /\ fnLog[2] = fnLog[1]
    /\ fnLog[3].ok
    /\ rtResult = [kind |-> "returned"]
    /\ Len(delays) = 2

-----------------------------------------------------------------------------
(* C13 *)

RECURSIVE Pow2(_)
Pow2(n) == IF n = 0 THEN 1 ELSE 2 * Pow2(n - 1)

\* C13: the k-th delay of withRetry is min(initialDelayMs * 2^(k-1),
\* maxDelayMs) for every initialDelayMs and maxDelayMs, so no delay exceeds
\* maxDelayMs and the delays never decrease.
C13_DelayDoublesUpToMax ==
    /\ \A k \in 1..Len(delays) : delays[k] = Min(initialDelayMs * Pow2(k - 1), maxDelayMs)
    /\ \A k \in 1..Len(delays) : delays[k] <= maxDelayMs
    /\ \A k \in 1..(Len(delays) - 1) : delays[k] <= delays[k + 1]

-----------------------------------------------------------------------------
(* C14 *)

\* The rows of generated_content that userId created within the trailing
\* rate window.
RecentRows(userId) ==
    {i \in DOMAIN store : store[i].user_id = userId /\ now - store[i].created_at <= RateWindow}

\* Request r gets its answer from checkRateLimit in this step.
RateChecked(r) == cPc[r] = "start" /\ cPc'[r] # "start" /\ rateQuery'[r].made

\* C14: when the count lookup succeeds, checkRateLimit returns allowed with
\* remaining = RATE_LIMIT_MAX - count exactly when the user has fewer than
\* RATE_LIMIT_MAX rows created within the trailing window, and otherwise
\* returns not allowed, remaining 0 and the error message, and the handler
\* answers 429; so a user with RATE_LIMIT_MAX recorded generations is
\* answered 429 until rows leave the window.
C14_RateLimitDecision ==
    [][\A r \in Requests :
           (RateChecked(r) /\ ~rateQuery'[r].error) =>
               LET n == Cardinality(RecentRows(cRequest[r].user))
               IN  IF n < RATE_LIMIT_MAX
                   THEN /\ rateLimitResult'[r].allowed
                        /\ rateLimitResult'[r].remaining = RATE_LIMIT_MAX - n
                        /\ cPc'[r] # "responded"
                   ELSE /\ ~rateLimitResult'[r].allowed
                        /\ rateLimitResult'[r].remaining = 0
                        /\ rateLimitResult'[r].error = RateLimitMessage
                        /\ cPc'[r] = "responded"
                        /\ cResponse'[r].status = 429]_vars

\* u1 has exactly RATE_LIMIT_MAX rows within the window, one tick after
\* they were created, and the request is answered 429.
C14_Witness ==
    /\ now = 1
    /\ Cardinality(RecentRows("u1")) = RATE_LIMIT_MAX
    /\ Len(store) > RATE_LIMIT_MAX
    /\ rateQuery[1] = [made |-> TRUE, count |-> RATE_LIMIT_MAX, error |-> FALSE]
    /\ cPc[1] = "responded"
    /\ cResponse[1].status = 429
    /\ cResponse[1].rateHeaders = <<0, now + RateWindow>>

-----------------------------------------------------------------------------
(* C15 *)

\* The handler of request r has gone on to fresh generation.
GeneratesFresh(r) ==
    /\ cPc[r] \in {"extract", "generate", "speech", "save", "responded"}
    /\ cPc[r] = "responded" => "extract" \in calls[r]

\* C15: an error of the count query makes checkRateLimit return allowed,
\* and the request is not answered as rate-limited; an error of the entry
\* query makes checkCachedContent return null, and the request goes on to
\* fresh generation; neither error reaches the handler.
C15_LookupsFailOpen ==
    \A r \in Requests :
        /\ (rateQuery[r].made /\ rateQuery[r].error) =>
               /\ rateLimitResult[r].allowed
               /\ cPc[r] # "start"
               /\ cResponse[r].rateHeaders = <<>>
        /\ (cacheQuery[r].made /\ cacheQuery[r].error) =>
               /\ cached[r] = NoRow
               /\ ~cResponse[r].cached
               /\ GeneratesFresh(r)

\* Both lookups failed although u1 is at the ceiling and a fresh matching
\* row is stored; the content was generated and stored.
C15_Witness ==
    /\ rateQuery[1].made /\ rateQuery[1].error
    /\ cacheQuery[1].made /\ cacheQuery[1].error
    /\ Cardinality(RecentRows("u1")) > RATE_LIMIT_MAX
    /\ \E i \in DOMAIN store :
           /\ store[i] = Row("u1", "f1", cRequest[1].kind, "basic", TRUE, 0)
           /\ now - store[i].created_at <= CacheWindow
    /\ cPc[1] = "responded"
    /\ cResponse[1].status = 200
    /\ saved[1] = "ok"

-----------------------------------------------------------------------------
(* C16 *)

\* The rows of userId created within the window that starts at tick t.
RowsInWindow(userId, t) ==
    {i \in DOMAIN store : /\ store[i].user_id = userId
                          /\ t <= store[i].created_at
                          /\ store[i].created_at <= t + RateWindow}

\* C16: however many requests of one user are in flight together and
\* however their count queries and their inserts interleave, the rows of
\* that user within one window number at most RATE_LIMIT_MAX + 1 (every
\* count query having succeeded).
C16_AtMostOneOverCeiling ==
    (\A r \in Requests : ~rateQuery[r].error) =>
        \A u \in Users : \A t \in 0..MaxClock :
            Cardinality(RowsInWindow(u, t)) <= RATE_LIMIT_MAX + 1

-----------------------------------------------------------------------------
(* C17 *)

\* C17: in every generation handler (quiz questions, flashcards, podcast,
\* slides) the rate-limit check comes before any generation work: a
\* generative or speech collaborator is called only for a request
\* checkRateLimit has allowed, never for a user who has RATE_LIMIT_MAX rows
\* within the window (unless the count query failed), and a request the
\* check finds at the ceiling ends at once with status 429, the remaining
\* quota and the reset time, without any such call.
C17_RateCheckBeforeGeneration ==
    [][\A r \in Requests :
           /\ (calls'[r] \ calls[r]) \cap {"generate", "speech"} # {} =>
                  /\ rateQuery[r].made
                  /\ rateLimitResult[r].allowed
                  /\ \/ rateQuery[r].error
                     \/ Cardinality(RecentRows(cRequest[r].user)) < RATE_LIMIT_MAX
           /\ (/\ RateChecked(r)
               /\ ~rateQuery'[r].error
               /\ Cardinality(RecentRows(cRequest[r].user)) >= RATE_LIMIT_MAX) =>
                  /\ cPc'[r] = "responded"
                  /\ cResponse'[r].status = 429
                  /\ cResponse'[r].rateHeaders = <<0, now + RateWindow>>
                  /\ calls'[r] \cap {"generate", "speech"} = {}]_vars

-----------------------------------------------------------------------------
(* C18 *)

\* Request r gets its answer from checkCachedContent in this step.
LookedUp(r) == cPc[r] = "form" /\ cPc'[r] # "form" /\ cacheQuery'[r].made

\* The row was stored for the user, the file name, the content type and
\* the difficulty of request r.
StoredFor(row, r) ==
    /\ row.user_id = cRequest[r].user
    /\ row.pdf_filename = cRequest[r].pdf_filename
    /\ row.content_type = cRequest[r].kind
    /\ row.difficulty = cRequest[r].difficulty

\* C18: an entry checkCachedContent returns is a row of the table stored
\* for the same user, file name and content type, with the requested
\* difficulty, created within the freshness window; a row that differs in
\* one of these or is older is never returned.
C18_CacheHitSound ==
    [][\A r \in Requests :
           (LookedUp(r) /\ cached'[r] # NoRow) =>
               \E i \in DOMAIN store :
                   /\ store[i] = cached'[r]
                   /\ StoredFor(store[i], r)
                   /\ now - store[i].created_at <= CacheWindow]_vars

\* The row of u1 is returned at the last tick of its freshness, although
\* the latest row for the file and content type is one of u2.
C18_Witness ==
    /\ Len(store) = 2
    /\ store[2].user_id = "u2"
    /\ store[2].pdf_filename = "f1"
    /\ store[2].content_type = cRequest[1].kind
    /\ cached[1] = store[1]
    /\ StoredFor(store[1], 1)
    /\ now = CacheWindow
    /\ cResponse[1].cached

-----------------------------------------------------------------------------
(* C19 *)

ServedFromCache(r) ==
    /\ cPc[r] = "responded"
    /\ cResponse[r] = CachedResponse(cached[r])
    /\ calls[r] = {}
    /\ saved[r] = "none"

\* With skipCache no lookup is made and nothing cached is returned: a
\* success is freshly generated content.
CacheSkipped(r) ==
    /\ ~cacheQuery[r].made
    /\ cached[r] = NoRow
    /\ ~cResponse[r].cached
    /\ cResponse[r].status = 200 => "generate" \in calls[r]

\* C19 as stated: in the flashcards, podcast and slides handlers, whenever
\* the lookup returns a hit and skipCache is not set, the handler calls no
\* extraction, generative or speech collaborator, inserts nothing and
\* answers with the stored result marked cached; with skipCache no lookup
\* is made and fresh content is generated.
C19_HitServedFromCache ==
    \A r \in Requests :
        cRequest[r].kind \in CachedKinds =>
            /\ (cached[r] # NoRow /\ ~cRequest[r].skipCache) => ServedFromCache(r)
            /\ (cRequest[r].skipCache /\ cPc[r] \notin {"absent", "start", "form"}) =>
                   CacheSkipped(r)

\* C19: the same for every hit the handler can serve, which is every hit
\* of the flashcards and slides handlers and a podcast hit with an
\* audioUrl; a podcast hit without audioUrl is passed over and the handler
\* goes on to fresh generation.
C19_UsableHitServedFromCache ==
    \A r \in Requests :
        cRequest[r].kind \in CachedKinds =>
            /\ (HitServed(cRequest[r].kind, cached[r]) /\ ~cRequest[r].skipCache) =>
                   ServedFromCache(r)
            /\ (cached[r] # NoRow /\ ~HitServed(cRequest[r].kind, cached[r])) =>
                   /\ cRequest[r].kind = "podcast"
                   /\ GeneratesFresh(r)
                   /\ ~cResponse[r].cached
            /\ (cRequest[r].skipCache /\ cPc[r] \notin {"absent", "start", "form"}) =>
                   CacheSkipped(r)

\* A podcast stored with its audioUrl is served from the cache.
C19_Witness ==
    /\ cRequest[1].kind = "podcast"
    /\ ~cRequest[1].skipCache
    /\ cached[1] = Row("u1", "f1", "podcast", "basic", TRUE, 0)
    /\ ServedFromCache(1)
    /\ cResponse[1].cached

-----------------------------------------------------------------------------
(* C20 *)

\* C20: once content is stored for a user, file name, content type and
\* difficulty, every lookup with these four values made less than the
\* freshness window later, the entry query not failing, returns an entry
\* of that difficulty, whatever else was stored in between.
C20_CacheHitComplete ==
    [][\A r \in Requests :
           (/\ LookedUp(r)
            /\ ~cacheQuery'[r].error
            /\ \E i \in DOMAIN store : /\ StoredFor(store[i], r)
                                       /\ now - store[i].created_at < CacheWindow) =>
               /\ cached'[r] # NoRow
               /\ cached'[r].difficulty = cRequest[r].difficulty]_vars

-----------------------------------------------------------------------------
(* C21 *)

\* The errors of the collaborator that are transient: rate-limited (429)
\* and server (5xx).
TransientApiErrors == {"rate limit", "server"}

\* C21: in the multi-chunk path a call for a chunk that fails with a
\* transient error is made again: the unit is counted as a chunk-local
\* failure, and its promise settled, only after more than one call of the
\* collaborator for that chunk.
C21_ChunkCallRetried ==
    \A i \in 1..Len(chunkPromises) :
        (chunkCalls[i] # <<>> /\ chunkCalls[i][1] \in TransientApiErrors) =>
            /\ i \in errorLog => Len(chunkCalls[i]) > 1
            /\ chunkPromises[i] = "fulfilled" => Len(chunkCalls[i]) > 1

-----------------------------------------------------------------------------
(* C22 *)

\* C22: for every script and every maxLength >= 1, every piece
\* splitTextIntoChunks returns has at most maxLength characters, and so
\* has every input of a speech call.
C22_PieceAtMostMaxLength ==
    /\ \A k \in 1..Len(scriptChunks) : Len(scriptChunks[k]) <= maxLength
    /\ \A k \in 1..Len(speechCalls) : Len(speechCalls[k]) <= maxLength

\* A script without sentence end or space at the cut is cut hard into
\* pieces of exactly maxLength characters, each sent to the speech
\* collaborator.
C22_Witness ==
    /\ spPc = "done"
    /\ maxLength = MaxMaxLength
    /\ Len(scriptChunks) >= 2
    /\ Len(scriptChunks[1]) = maxLength
    /\ cuts[1] = <<>>
    /\ \A k \in 1..Len(scriptChunks[1]) : scriptChunks[1][k] = "a"
    /\ Len(speechCalls) = Len(scriptChunks)

-----------------------------------------------------------------------------
(* C23 *)

\* The pieces from the k-th on, each followed by the text cut after it.
RECURSIVE Weave(_, _, _)
Weave(pieces, gaps, k) ==
    IF k > Len(pieces)
    THEN <<>>
    ELSE pieces[k] \o (IF k <= Len(gaps) THEN gaps[k] ELSE <<>>) \o Weave(pieces, gaps, k + 1)

\* C23: for every script and every maxLength >= 1, every piece is
\* non-empty, the text cut at a split point is whitespace only, and the
\* pieces in order with the cut whitespace put back between them (followed,
\* while the loop runs, by what remains) are the trimmed script exactly.
C23_PiecesReproduceScript ==
    spPc \notin {"idle", "start"} =>
        /\ \A k \in 1..Len(scriptChunks) : scriptChunks[k] # <<>>
        /\ \A k \in 1..Len(cuts) : \A j \in 1..Len(cuts[k]) : IsWhitespace(cuts[k][j])
        /\ Weave(scriptChunks, cuts, 1) \o (IF spPc = "split" THEN remainingText ELSE <<>>)
               = Trim(script)

\* Three pieces: the first split drops whitespace, the second drops nothing.
C23_Witness ==
    /\ spPc = "speech"
    /\ Len(scriptChunks) = 3
    /\ cuts[1] # <<>>
    /\ cuts[2] = <<>>
    /\ Len(Trim(script)) < Len(script)

-----------------------------------------------------------------------------
(* C24 *)

\* C24: the speech collaborator is called at most once per piece, piece by
\* piece in the order of the script, and when the loop has ended the final
\* audio consists of one segment per piece, the k-th segment being the
\* answer of the k-th call to the k-th piece.
C24_AudioInPieceOrder ==
    /\ Len(speechCalls) <= Len(scriptChunks)
    /\ \A k \in 1..Len(speechCalls) : speechCalls[k] = scriptChunks[k]
    /\ spPc = "done" =>
           /\ Len(speechCalls) = Len(scriptChunks)
           /\ Len(audioBuffer) = Len(scriptChunks)
           /\ \A k \in 1..Len(audioBuffer) : audioBuffer[k] = Segment(scriptChunks[k], k)

\* The audio of three pieces, the first two different.
C24_Witness ==
    /\ spPc = "done"
    /\ Len(scriptChunks) = 3
    /\ scriptChunks[1] # scriptChunks[2]
    /\ Len(audioBuffer) = 3
    /\ audioBuffer[1].input = scriptChunks[1]
    /\ audioBuffer[3].input = scriptChunks[3]

-----------------------------------------------------------------------------
(* C25 *)

\* C25: chunkText terminates for every text and all options with
\* maxChunkSize >= 1, an overlapSize at or above the chunk size included:
\* every iteration that stays in the loop moves position forward by at
\* least 1 and leaves it before the end of the text, and the loop is left
\* only by emitting the non-empty rest of the text as the last chunk.
C25_CursorAdvancesToTail ==
    [][ckPc = "loop" =>
           /\ ckPc' = "loop" =>
                  /\ position' >= position + 1
                  /\ position' < Len(cleanedText)
           /\ ckPc' = "done" =>
                  /\ position < Len(cleanedText)
                  /\ Len(chunks') = Len(chunks) + 1
                  /\ chunks'[Len(chunks')] =
                         Trim(Slice(cleanedText, position, Len(cleanedText)))
                  /\ chunks'[Len(chunks')] # <<>>
                  /\ spans'[Len(spans')] = <<position, Len(cleanedText)>>]_vars

\* A text without boundary characters chunked with an overlap of at least
\* the chunk size: the cursor moves one character at a time to the tail.
C25_Witness ==
    /\ ckPc = "done"
    /\ opts.overlapSize >= opts.maxChunkSize
    /\ Len(cleanedText) = MaxTextLen
    /\ \A k \in 1..Len(cleanedText) : cleanedText[k] = "a"
    /\ Len(chunks) = MaxTextLen - opts.maxChunkSize + 1
    /\ position = Len(cleanedText) - opts.maxChunkSize

-----------------------------------------------------------------------------
(* C26 *)

Abs(n) == IF n < 0 THEN -n ELSE n

\* 0-based indexes in area at which a sentence end followed by a space or
\* a newline begins.
SentenceHits(area) ==
    {k \in 0..(Len(area) - 2) :
         \E p \in 1..Len(sentenceBreaks) : SubSeq(area, k + 1, k + 2) = sentenceBreaks[p]}

\* C26: when the window around the candidate holds no paragraph break,
\* findBestSplitPoint returns the position right after the sentence end
\* plus whitespace nearest to the candidate, whichever punctuation it is
\* (nearest taken either as least distance to the candidate or as last in
\* the window); without a sentence end the position after the last space;
\* without a space the candidate itself.
C26_NearestSentenceEnd ==
    fbPc = "done" =>
        LET start == Max(0, fbTarget - fbRange)
            area  == Slice(fbText, start, Min(Len(fbText), fbTarget + fbRange))
            hits  == SentenceHits(area)
            space == LastIndexOf(area, <<" ">>)
        IN  LastIndexOf(area, <<"\n", "\n">>) = -1 =>
                IF hits # {}
                THEN \E k \in hits :
                         /\ fbResult = start + k + 2
                         /\ \/ \A j \in hits : j <= k
                            \/ \A j \in hits :
                                   Abs(start + k + 2 - fbTarget) <= Abs(start + j + 2 - fbTarget)
                ELSE IF space # -1
                     THEN fbResult = start + space + 1
                     ELSE fbResult = fbTarget

-----------------------------------------------------------------------------
(* C27 *)

\* str holds a blank line between two pieces of content.
HasParagraphBreak(str) ==
    \E k \in 1..(Len(str) - 1) :
        /\ str[k] = "\n"
        /\ str[k + 1] = "\n"
        /\ \E i \in 1..(k - 1) : ~IsWhitespace(str[i])
        /\ \E j \in (k + 2)..Len(str) : ~IsWhitespace(str[j])

\* C27: when chunkText cuts a raw text that holds a paragraph break, the
\* paragraph break is still present in the text the split points are
\* chosen in, so that a chunk can end at it in preference to a sentence or
\* word boundary.
C27_ParagraphBreaksKept ==
    (ckPc = "loop" /\ HasParagraphBreak(text)) =>
        LastIndexOf(cleanedText, <<"\n", "\n">>) # -1

-----------------------------------------------------------------------------
(* C28 *)

-----------------------------------------------------------------------------
(* C29 *)

\* The handler took the single-unit path and its call has come back.
SingleCallMade == ~MultiChunkPath /\ chunkCalls # <<>>

\* C29: a success response of the quiz handler holds at least 1 and at
\* most questionCount questions; when every unit of the multi-chunk path
\* failed or returned nothing, or the single call returned an empty list,
\* the response is the error 500; a failure of the single call is not
\* absorbed: the response is an error.
C29_NoEmptySuccess ==
    hPc = "responded" =>
        /\ response.status = 200 =>
               /\ Len(response.questions) >= 1
               /\ Len(response.questions) <= questionCount
        /\ (MultiChunkPath /\ \A u \in Units : chunkValues[u] = <<>>) =>
               response.status = 500
        /\ SingleCallMade =>
               /\ (chunkCalls[1][1] = "" /\ allQuestions = <<>>) => response.status = 500
               /\ chunkCalls[1][1] # "" =>
                      /\ response.status \in {429, 500}
                      /\ response = ErrorResponse(chunkCalls[1][1])

\* All three units of the multi-chunk path failed: the response is 500.
C29_Witness ==
    /\ hPc = "responded"
    /\ Len(chunkPromises) = 3
    /\ errorLog = Units
    /\ \A u \in Units : chunkValues[u] = <<>>
    /\ response.status = 500

-----------------------------------------------------------------------------
(* C30 *)

\* A fresh entry the handler could serve to request r is in the table.
FreshEntryFor(r) ==
    LET hit == checkCachedContent(
                   EntryQuery(store, cRequest[r].user, cRequest[r].pdf_filename,
                              cRequest[r].kind, now - CacheWindow),
                   cRequest[r].difficulty)
    IN  HitServed(cRequest[r].kind, hit)

\* C30: in the flashcards, podcast and slides handlers the cache is looked
\* up only after checkRateLimit has allowed the request; a user with
\* RATE_LIMIT_MAX rows in the window is answered 429 without a lookup,
\* whether or not a fresh entry for the identical request exists; and the
\* table grows only by the row of a request that answers with freshly
\* generated content: a request served from the cache or ending in an
\* error adds no row.
C30_RateLimitBeforeCache ==
    [][/\ \A r \in Requests :
              /\ (cacheQuery'[r].made /\ ~cacheQuery[r].made) =>
                     /\ rateQuery[r].made
                     /\ rateLimitResult[r].allowed
              /\ (/\ RateChecked(r)
                  /\ ~rateQuery'[r].error
                  /\ Cardinality(RecentRows(cRequest[r].user)) >= RATE_LIMIT_MAX) =>
                     /\ cResponse'[r].status = 429
                     /\ ~cResponse'[r].cached
                     /\ ~cacheQuery'[r].made
              /\ (/\ cPc[r] # "responded"
                  /\ cPc'[r] = "responded"
                  /\ cResponse'[r].cached \/ cResponse'[r].status # 200) =>
                     /\ store' = store
                     /\ saved'[r] # "ok"
       /\ store' # store =>
              \E r \in Requests :
                  /\ cPc[r] = "save"
                  /\ cPc'[r] = "responded"
                  /\ cResponse'[r].status = 200
                  /\ ~cResponse'[r].cached
                  /\ "generate" \in calls[r]
                  /\ Len(store') = Len(store) + 1
                  /\ SubSeq(store', 1, Len(store)) = store
                  /\ store'[Len(store')].user_id = cRequest[r].user]_vars

\* A user at the ceiling is answered 429 although the table holds a fresh
\* entry for the identical request.
C30_Witness ==
    /\ cPc[1] = "responded"
    /\ cResponse[1].status = 429
    /\ cRequest[1].hasFile
    /\ ~cRequest[1].skipCache
    /\ FreshEntryFor(1)
    /\ ~cacheQuery[1].made
    /\ Cardinality(RecentRows(cRequest[1].user)) >= RATE_LIMIT_MAX

============================================================================
